---- MODULE Spec2Model ----
(***************************************************************************)
(* Model of the m3u8-proxy-script repository: an HLS playlist rewriting    *)
(* proxy that exists in eight near-identical deployment variants.  The     *)
(* variable impl names the variant a behaviour runs:                       *)
(*   "deno"      src/deno.ts, second script (lines 391-852)                *)
(*   "kv"        src/unnamed/part_001 (Cloudflare Worker with KV)          *)
(*   "cacheapi"  src/unnamed/part_003, first script (lines 1-743)          *)
(*   "worker"    src/unnamed/part_003, second script (lines 745-1142)      *)
(*   "denocache" src/deno-cache.ts                                         *)
(*   "server"    src/unnamed/part_002 (Deno server with LRU cache)         *)
(*   "php"       src/m3u8filter.php, second script (lines 456-1215)        *)
(*   "node"      src/m3u8filter.php, Node script (lines 1217-1666)         *)
(* Text is a sequence of lines; a line is a record [t, u, d] with the tag  *)
(* t, the URI u it carries (NoUrl when none) and the number d it carries   *)
(* (tenths of a second for #EXTINF, 0 when none).  The empty sequence     *)
(* is the empty string.                                                    *)
(***************************************************************************)
EXTENDS Integers, Sequences, FiniteSets, TLC

(* ------------------------------ bounds -------------------------------- *)

\* MAX_RECURSION of the scripts (5, 30 or 50 there), scaled down; the chain of
\* nested master playlists of the origin is always two longer than it.
MAX_RECURSION == 1

\* number of request slots served concurrently
NumRuns == 2

\* total number of requests served in one behaviour
MaxRequests == 3

Runs == 1..NumRuns

Impls == {"deno", "kv", "cacheapi", "worker", "denocache", "server", "php", "node"}

(* ------------------------------- URLs --------------------------------- *)

\* A URL or URI reference: abs says that it starts with http(s)://, dir is
\* the directory of an absolute URL, file its last path segment, and wrap
\* the proxy prefixes put in front of it, outermost first.
Url(dir, name, n) == [abs |-> TRUE, dir |-> dir, file |-> <<name, n>>, wrap |-> <<>>]

Rel(name, n) == [abs |-> FALSE, dir |-> "", file |-> <<name, n>>, wrap |-> <<>>]

NoUrl == Rel("", 0)

\* `${proxy}${encodeURIComponent(url)}`: an absolute URL below the proxy
Wrap(kind, url) == [url EXCEPT !.abs = TRUE, !.wrap = <<kind>> \o @]

(* ------------------------------- lines -------------------------------- *)

L(t) == [t |-> t, u |-> NoUrl, d |-> 0]

LU(t, u) == [t |-> t, u |-> u, d |-> 0]

LD(t, d) == [t |-> t, u |-> NoUrl, d |-> d]

\* lines that begin with '#'
IsComment(l) == l.t \notin {"URI", "BLANK"}

\* lines that begin with '#EXT-X-DISCONTINUITY': the tag itself and
\* '#EXT-X-DISCONTINUITY-SEQUENCE'
BeginsWithDiscontinuity(l) == l.t \in {"DISC", "DISCSEQ"}

\* the string is empty: '' splits into one empty line
IsEmptyString(b) == b = <<>> \/ b = <<L("BLANK")>>

NonBlank(b) == SelectSeq(b, LAMBDA l : l.t # "BLANK")

\* content.includes(tag), for the tags no other line of the model contains
Includes(b, t) == \E i \in 1..Len(b) : b[i].t = t

\* content.trim().startsWith('#EXTM3U')
StartsWithExtM3U(b) == NonBlank(b) # <<>> /\ NonBlank(b)[1].t = "EXTM3U"

(* ------------------------------ origin -------------------------------- *)

\* the chain of nested master playlists m0 -> m1 -> ... -> media playlist
ChainLen == MAX_RECURSION + 2

Master(i) == Url("live", "m", i)

MediaUrl == Url("live", "v", 0)

CycleUrl == Url("live", "cyc", 0)

NoVariantUrl == Url("live", "nov", 0)

BadUrl == Url("live", "bad", 0)

Bad404Url == Url("live", "bad404", 0)

DownUrl == Url("live", "down", 0)

GoneUrl == Url("live", "gone", 0)

ClipUrl == Url("live", "clip", 0)

PageUrl == Url("live", "page", 0)

EmptyUrl == Url("live", "empty", 0)

Targets ==
  {Master(i) : i \in 0..(ChainLen - 1)} \cup
  {MediaUrl, CycleUrl, NoVariantUrl, BadUrl, Bad404Url, DownUrl, GoneUrl,
   ClipUrl, PageUrl, EmptyUrl}

MasterBody(ref) == <<L("EXTM3U"), L("STREAMINF"), LU("URI", ref)>>

MediaBody ==
  <<L("EXTM3U"), LD("VERSION", 3), LD("TARGETDURATION", 10),
    LD("EXTINF", 99), LU("URI", Rel("seg", 1)), L("DISC"),
    LD("EXTINF", 99), LU("URI", Rel("seg", 2)), L("DISC"),
    LD("EXTINF", 99), LU("URI", Rel("seg", 3)), L("DISC"),
    LD("EXTINF", 99), LU("URI", Rel("seg", 4)), L("ENDLIST")>>

Ok(ctype, big, body) ==
  [net |-> TRUE, status |-> 200, ctype |-> ctype, big |-> big, body |-> body]

\* What the fetch collaborator gets for a URL: net = FALSE is a network
\* error or timeout, big says that the body has 10 KB or more.
Origin(url) ==
  CASE url \in {Master(i) : i \in 0..(ChainLen - 2)} ->
         Ok("mpegurl", FALSE, MasterBody(Rel("m", url.file[2] + 1)))
    [] url = Master(ChainLen - 1) -> Ok("mpegurl", FALSE, MasterBody(Rel("v", 0)))
    [] url = MediaUrl -> Ok("mpegurl", FALSE, MediaBody)
    [] url = CycleUrl -> Ok("", FALSE, MasterBody(Rel("cyc", 0)))
    [] url = NoVariantUrl -> Ok("", FALSE, <<L("EXTM3U"), L("STREAMINF")>>)
    [] url = BadUrl -> Ok("", FALSE, MasterBody(Rel("down", 0)))
    [] url = Bad404Url -> Ok("", FALSE, MasterBody(Rel("gone", 0)))
    [] url = GoneUrl ->
         [net |-> TRUE, status |-> 404, ctype |-> "html", big |-> FALSE,
          body |-> <<LU("URI", Rel("notfound", 0))>>]
    [] url = ClipUrl -> Ok("video", TRUE, <<LU("URI", Rel("bytes", 0))>>)
    [] url = PageUrl -> Ok("html", FALSE, <<LU("URI", Rel("html", 0))>>)
    [] url = EmptyUrl -> Ok("mpegurl", FALSE, <<>>)
    [] OTHER ->
         [net |-> FALSE, status |-> 0, ctype |-> "", big |-> FALSE, body |-> <<>>]

(* --------------------------- configuration ---------------------------- *)

\* CONFIG.PROXY_TS is a non-empty string
TsProxySet(im, e) == IF im = "denocache" THEN e.PROXY_TS ELSE TRUE

\* CONFIG.PROXY_URL is a non-empty string
MainProxySet(im, e) == IF im = "denocache" THEN e.PROXY_URL ELSE TRUE

\* CONFIG.FILTER_DISCONTINUITY of the scripts that have it
FILTER_DISCONTINUITY == TRUE

(* --------------------------- URL resolver ----------------------------- *)

\* the names of files with an extension of MEDIA_FILE_EXTENSIONS
MediaNames == {"clip", "seg"}

getBaseUrl(url) == IF url.wrap = <<>> THEN url.dir ELSE "proxy"

resolveUrl(baseDir, ref) ==
  IF ref.abs THEN ref
  ELSE [abs |-> TRUE, dir |-> baseDir, file |-> ref.file, wrap |-> <<>>]

proxyTsUrl(ts, url) == IF ts THEN Wrap("ts", url) ELSE url

(* -------------------------- classification ---------------------------- *)

isM3u8Content(content, ctype) == ctype = "mpegurl" \/ StartsWithExtM3U(content)

isMediaFile(url, ctype) == ctype = "video" \/ url.file[1] \in MediaNames

\* part_002: also an HLS tag among the first ten lines
isM3U8ContentServer(content, ctype) ==
  \/ ctype = "mpegurl"
  \/ StartsWithExtM3U(content)
  \/ \E i \in 1..Len(content) :
       i <= 10 /\ content[i].t \in {"VERSION", "TARGETDURATION", "MEDIASEQ"}

\* part_002: '#EXT-X-MEDIA-SEQUENCE' contains '#EXT-X-MEDIA'
isMasterPlaylist(content) ==
  \/ Includes(content, "STREAMINF")
  \/ /\ (Includes(content, "MEDIA") \/ Includes(content, "MEDIASEQ"))
     /\ ~Includes(content, "EXTINF")

(* ----------------------------- rewriter ------------------------------- *)

processKeyLine(line, baseDir, ts) ==
  IF line.u = NoUrl THEN line
  ELSE [line EXCEPT !.u = proxyTsUrl(ts, resolveUrl(baseDir, line.u))]

RECURSIVE pmpFrom(_, _, _, _, _, _)
\* the loop of processMediaPlaylist from line i on
pmpFrom(lines, i, isNextLineSegment, baseDir, ts, filterDisc) ==
  IF i > Len(lines) THEN <<>>
  ELSE
    LET line == lines[i]
        rest(flag) == pmpFrom(lines, i + 1, flag, baseDir, ts, filterDisc)
    IN  IF line.t = "BLANK" THEN rest(isNextLineSegment)
        ELSE IF filterDisc /\ line.t = "DISC" THEN rest(isNextLineSegment)
        ELSE IF line.t \in {"KEY", "MAP"}
          THEN <<processKeyLine(line, baseDir, ts)>> \o rest(isNextLineSegment)
        ELSE IF line.t = "EXTINF" THEN <<line>> \o rest(TRUE)
        ELSE IF isNextLineSegment /\ ~IsComment(line)
          THEN <<LU("URI", proxyTsUrl(ts, resolveUrl(baseDir, line.u)))>> \o rest(FALSE)
        ELSE <<line>> \o rest(isNextLineSegment)

processMediaPlaylist(url, content, ts, filterDisc) ==
  pmpFrom(content, 1, FALSE, getBaseUrl(url), ts, filterDisc)

\* the first non-comment, non-blank line after the first variant-stream tag,
\* resolved; NoUrl stands for the empty string
SelectVariant(url, content) ==
  LET tags == {i \in 1..Len(content) : content[i].t = "STREAMINF"}
      first == CHOOSE i \in tags : \A j \in tags : i <= j
      cand == IF tags = {} THEN {}
              ELSE {j \in (first + 1)..Len(content) : content[j].t = "URI"}
  IN  IF cand = {} THEN NoUrl
      ELSE resolveUrl(getBaseUrl(url),
                      content[CHOOSE j \in cand : \A k \in cand : j <= k].u)

(* ------------------------ rewriter of part_002 ------------------------ *)

\* part_002: CONFIG.MAX_REDIRECTS
MAX_REDIRECTS == 6

\* createProxyUrl / processMediaTag: the URL of this service for url
createProxyUrl(url) == Wrap("self", url)

\* constructProxyUrl: TS_PROXY_URL and PROXY_URL are both set
constructProxyUrl(url, isKey) == Wrap(IF isKey THEN "ts" ELSE "main", url)

\* processSegmentLine: /\.(ts|aac|m4s|mp4)$/i
isTs(url) == url.file[1] \in {"clip", "seg"}

RECURSIVE serverMasterFrom(_, _, _, _)
\* the loop of processMasterPlaylist (part_002) from line i on
serverMasterFrom(lines, i, isStreamInf, baseDir) ==
  IF i > Len(lines) THEN <<>>
  ELSE
    LET line == lines[i]
        rest(flag) == serverMasterFrom(lines, i + 1, flag, baseDir)
    IN  IF line.t = "BLANK" THEN rest(isStreamInf)
        ELSE IF line.t = "STREAMINF" THEN <<line>> \o rest(TRUE)
        ELSE IF line.t \in {"MEDIA", "MEDIASEQ"}
          THEN <<IF line.u = NoUrl THEN line
                 ELSE [line EXCEPT !.u = createProxyUrl(resolveUrl(baseDir, line.u))]>>
               \o rest(isStreamInf)
        ELSE IF isStreamInf /\ ~IsComment(line)
          THEN <<LU("URI", createProxyUrl(resolveUrl(baseDir, line.u)))>> \o rest(FALSE)
        ELSE <<line>> \o rest(isStreamInf)

RECURSIVE serverMediaFrom(_, _, _, _)
\* the loop of processMediaPlaylist (part_002) from line i on, CONFIG.STRIP_ADS
\* being true
serverMediaFrom(lines, i, isDiscontinuity, baseDir) ==
  IF i > Len(lines) THEN <<>>
  ELSE
    LET line == lines[i]
        disc == IF line.t = "EXTINF" THEN FALSE ELSE isDiscontinuity
        rest == serverMediaFrom(lines, i + 1, disc, baseDir)
    IN  IF BeginsWithDiscontinuity(line)
          THEN IF /\ i + 2 <= Len(lines)
                  /\ lines[i + 1].t = "EXTINF"
                  /\ ~IsComment(lines[i + 2])
                 THEN serverMediaFrom(lines, i + 3, TRUE, baseDir)
                 ELSE serverMediaFrom(lines, i + 1, TRUE, baseDir)
        ELSE IF disc THEN rest
        ELSE IF line.t \in {"KEY", "MAP"}
          THEN <<IF line.u = NoUrl THEN line
                 ELSE [line EXCEPT !.u = constructProxyUrl(resolveUrl(baseDir, line.u), TRUE)]>>
               \o rest
        ELSE IF line.t = "URI"
          THEN <<LU("URI", constructProxyUrl(resolveUrl(baseDir, line.u),
                                             isTs(resolveUrl(baseDir, line.u))))>> \o rest
        ELSE <<line>> \o rest

\* processM3U8Content (part_002) below the depth limit
processM3U8Content(content, sourceUrl) ==
  IF isMasterPlaylist(content)
    THEN serverMasterFrom(content, 1, FALSE, getBaseUrl(sourceUrl))
    ELSE serverMediaFrom(content, 1, FALSE, getBaseUrl(sourceUrl))

(* ---------------------- rewriter of m3u8filter.php -------------------- *)

RECURSIVE modifyFrom(_, _, _, _, _)
\* the loop of modifyM3u8Urls from line i on; ts: PROXY_TS is not empty.
\* Without PROXY_TS the php script leaves the lines with a key or a map as
\* they are.
modifyFrom(lines, i, isNextLineMedia, baseDir, ts) ==
  IF i > Len(lines) THEN <<>>
  ELSE
    LET line == lines[i]
        rest(flag) == modifyFrom(lines, i + 1, flag, baseDir, ts)
    IN  IF line.t = "BLANK" THEN <<line>> \o rest(isNextLineMedia)
        ELSE IF line.t \in {"KEY", "MAP"}
          THEN <<IF ts THEN processKeyLine(line, baseDir, TRUE) ELSE line>>
               \o rest(isNextLineMedia)
        ELSE IF line.t = "EXTINF" THEN <<line>> \o rest(TRUE)
        ELSE IF isNextLineMedia /\ ~IsComment(line)
          THEN <<LU("URI", proxyTsUrl(ts, resolveUrl(baseDir, line.u)))>> \o rest(FALSE)
        ELSE <<line>> \o rest(FALSE)

modifyM3u8Urls(content, baseDir, ts) == modifyFrom(content, 1, FALSE, baseDir, ts)

\* filterDiscontinuity of the Node script
filterDiscontinuity(content) ==
  SelectSeq(content, LAMBDA l : l.t # "BLANK" /\ ~BeginsWithDiscontinuity(l))

\* filterDiscontinuity of the first script of m3u8filter.php
filterDiscontinuityV1(content, filterDisc) ==
  IF ~filterDisc THEN content
  ELSE SelectSeq(content, LAMBDA l : l.t # "BLANK" /\ ~BeginsWithDiscontinuity(l))

\* the variant of the php loop: the first line that is not a comment,
\* wherever it stands; without one $currentUrl stays
phpVariant(url, content) ==
  LET cand == {j \in 1..Len(content) : content[j].t = "URI"}
  IN  IF cand = {} THEN url
      ELSE resolveUrl(getBaseUrl(url),
                      content[CHOOSE j \in cand : \A k \in cand : j <= k].u)

\* the variant of the Node loop: the line after lines.indexOf(tag line) of
\* the first variant-stream tag that has a URL there; NoUrl stands for ''
nodeVariant(url, content) ==
  LET lines == NonBlank(content)
      indexOf(l) == CHOOSE i \in 1..Len(lines) :
                      lines[i] = l /\ \A j \in 1..(i - 1) : lines[j] # l
      good == {i \in 1..Len(lines) :
                 /\ lines[i].t = "STREAMINF"
                 /\ indexOf(lines[i]) + 1 <= Len(lines)
                 /\ lines[indexOf(lines[i]) + 1].t = "URI"}
  IN  IF good = {} THEN NoUrl
      ELSE resolveUrl(getBaseUrl(url),
             lines[indexOf(lines[CHOOSE i \in good : \A k \in good : i <= k]) + 1].u)

(* ------------------------------ ad filter ----------------------------- *)

\* parseM3U8Structure: '#EXT' lines among the first HeaderWindow lines are
\* main headers whatever their tag
HeaderWindow == 10

NoParse == [segments |-> <<>>, main |-> <<>>, disc |-> FALSE, map |-> <<>>]

\* lines[i + 1] && !lines[i + 1].startsWith('#'): the line is not trimmed
\* for this, so that a line of blanks passes (d of a blank line is the
\* number of blanks in it)
IsSegmentUrlLine(l) == l.t = "URI" \/ (l.t = "BLANK" /\ l.d > 0)

RECURSIVE parseFrom(_, _, _)
\* the loop of parseM3U8Structure from line i on; durations are in tenths of
\* a second, a negative one is an #EXTINF without a number
parseFrom(lines, i, st) ==
  IF i > Len(lines) THEN st
  ELSE
    LET line == lines[i] IN
    IF i <= HeaderWindow /\ IsComment(line)
      THEN parseFrom(lines, i + 1, [st EXCEPT !.main = Append(@, line)])
    ELSE IF line.t = "MAP" THEN parseFrom(lines, i + 1, [st EXCEPT !.map = <<line>>])
    ELSE IF BeginsWithDiscontinuity(line)
      THEN parseFrom(lines, i + 1, [st EXCEPT !.disc = TRUE])
    ELSE IF /\ line.t = "EXTINF"
            /\ line.d >= 0
            /\ i + 1 <= Len(lines)
            /\ IsSegmentUrlLine(lines[i + 1])
      THEN parseFrom(lines, i + 2,
             [st EXCEPT !.segments = Append(@,
                          [index |-> Len(st.segments), startLine |-> i,
                           endLine |-> i + 1, duration |-> line.d,
                           hasDiscontinuity |-> st.disc, hasMap |-> st.map # <<>>,
                           content |-> st.map \o <<line, lines[i + 1]>>]),
                        !.disc = FALSE, !.map = <<>>])
    ELSE parseFrom(lines, i + 1, st)

parseM3U8Structure(content) == parseFrom(content, 1, NoParse)

RECURSIVE SumDurations(_)
SumDurations(segs) ==
  IF segs = <<>> THEN 0 ELSE Head(segs).duration + SumDurations(Tail(segs))

RECURSIVE SumSquares(_)
SumSquares(segs) ==
  IF segs = <<>> THEN 0
  ELSE Head(segs).duration * Head(segs).duration + SumSquares(Tail(segs))

\* calculateSegmentStats without the division and the square root: with n
\* segments, sum = n * avgDuration and var = (n * stdDev) ^ 2; p10 is
\* sortedDurations[Math.floor(n * 0.1)]
calculateSegmentStats(segs) ==
  LET n == Len(segs)
      sum == SumDurations(segs)
      k == n \div 10
      below(x) == Cardinality({j \in 1..n : segs[j].duration < x})
      upto(x) == Cardinality({j \in 1..n : segs[j].duration <= x})
  IN  [n |-> n, sum |-> sum, var |-> n * SumSquares(segs) - sum * sum,
       p10 |-> CHOOSE x \in {segs[j].duration : j \in 1..n} :
                 below(x) <= k /\ k < upto(x)]

\* analyzeSegments: 10 * positionFactor
positionFactor(seg, stats) ==
  IF seg.index < 3 /\ seg.duration < stats.p10 THEN 8
  ELSE IF seg.index > stats.n - 3 /\ seg.duration < stats.p10 THEN 5
  ELSE 0

\* 1000 * (positionFactor * 0.3 + discontinuityFactor * 0.1)
otherFactors(seg, stats) ==
  30 * positionFactor(seg, stats) + (IF seg.hasDiscontinuity THEN 30 ELSE 0)

\* adScore > t / 1000 for 0 <= t < 1000, t a multiple of 10, where adScore is
\* min(1, 0.6 * min(1, zScore / 3) + the other factors) and
\* zScore = |n * duration - sum| / sqrt(var), NaN (php: 0) when var = 0
adScoreAbove(seg, stats, t) ==
  LET c == otherFactors(seg, stats)
      dev == stats.n * seg.duration - stats.sum
      u == (t - c) \div 10
  IN  /\ stats.var > 0
      /\ t - c < 600
      /\ \/ t - c < 0
         \/ 400 * dev * dev > u * u * stats.var

\* analyzeSegments: isAd: adScore > 0.65
isAd(seg, stats) == adScoreAbove(seg, stats, 650)

\* Math.floor(100 * adScore) where zScore is a number: 60 * min(1, zScore / 3)
\* is 20 * zScore up to 60; zScore is 0 here when var is 0, as in the php
\* script
adScoreHundredths(seg, stats) ==
  LET dev == stats.n * seg.duration - stats.sum
      m == CHOOSE k \in 0..60 :
             /\ k * k * stats.var <= 400 * dev * dev
             /\ (k = 60 \/ (k + 1) * (k + 1) * stats.var > 400 * dev * dev)
      sum == (IF stats.var = 0 THEN 0 ELSE m) + otherFactors(seg, stats) \div 10
  IN  IF sum > 100 THEN 100 ELSE sum

\* analyzeSegments: guarded says that the script divides by stdDev only when
\* stdDev > 0 (m3u8filter.php); otherwise 0 / 0 gives NaN, which stays NaN
\* through Math.min
analyzeSegments(segs, stats, guarded) ==
  [j \in 1..Len(segs) |->
     [index |-> segs[j].index, duration |-> segs[j].duration,
      hasMap |-> segs[j].hasMap, hasDiscontinuity |-> segs[j].hasDiscontinuity,
      positionFactor |-> positionFactor(segs[j], stats),
      scoreIsNaN |-> ~guarded /\ stats.var = 0,
      adScore |-> adScoreHundredths(segs[j], stats),
      isAd |-> isAd(segs[j], stats)]]

\* applyFilterDecision: dynamicThreshold > t / 1000 for t a multiple of 10,
\* where dynamicThreshold is min(0.8, max(0.5, 0.65 - (stdDev / avgDuration)
\* * 0.2)) and stdDev / avgDuration = sqrt(var) / sum; it is NaN, above
\* nothing, when avgDuration is 0
dynamicThresholdAbove(stats, t) ==
  /\ stats.sum > 0
  /\ t < 800
  /\ \/ t < 500
     \/ LET w == (650 - t) \div 10
        IN  w > 0 /\ w * w * stats.sum * stats.sum > 400 * stats.var

\* applyFilterDecision: the segment stays.  segment.adScore > dynamicThreshold
\* is decided on the hundredths: one of them is below adScore and not below
\* dynamicThreshold (0.65 is, when isAd holds and dynamicThreshold is at
\* most 0.65); it is false when dynamicThreshold is NaN
keepSegment(seg, stats) ==
  /\ ~( /\ isAd(seg, stats)
        /\ stats.sum > 0
        /\ \E t \in {10 * k : k \in 0..99} :
             adScoreAbove(seg, stats, t) /\ ~dynamicThresholdAbove(stats, t) )
  /\ ~(seg.duration < 10 /\ seg.index > 3)

applyFilterDecision(segs, stats) == SelectSeq(segs, LAMBDA s : keepSegment(s, stats))

CriticalTags == {"VERSION", "TARGETDURATION", "MEDIASEQ", "PLAYLISTTYPE", "ENDLIST"}

\* the index of the first line with tag t, 0 if there is none
FirstTag(lines, t) ==
  IF Includes(lines, t)
    THEN CHOOSE i \in 1..Len(lines) :
           lines[i].t = t /\ \A j \in 1..(i - 1) : lines[j].t # t
    ELSE 0

MaxDuration(segs) ==
  CHOOSE d \in {segs[j].duration : j \in 1..Len(segs)} :
    \A j \in 1..Len(segs) : segs[j].duration <= d

\* updateM3U8Headers with Math.floor in the place of Math.ceil
updateM3U8HeadersFloor(lines, segs, first) ==
  IF segs = <<>> THEN lines
  ELSE
    LET td == FirstTag(lines, "TARGETDURATION")
        l1 == IF td = 0 THEN lines
              ELSE [lines EXCEPT ![td].d = MaxDuration(segs) \div 10]
        ms == FirstTag(l1, "MEDIASEQ")
    IN  IF first > 0 /\ ms # 0 THEN [l1 EXCEPT ![ms].d = first] ELSE l1

\* updateM3U8Headers; first is segments[0].index, 0 where php finds no key 0
updateM3U8Headers(lines, segs, first) ==
  IF segs = <<>> THEN lines
  ELSE
    LET td == FirstTag(lines, "TARGETDURATION")
        l1 == IF td = 0 THEN lines
              ELSE [lines EXCEPT ![td].d = (MaxDuration(segs) + 9) \div 10]
        ms == FirstTag(l1, "MEDIASEQ")
    IN  IF first > 0 /\ ms # 0 THEN [l1 EXCEPT ![ms].d = first] ELSE l1

RECURSIVE KeptLines(_, _, _)
KeptLines(lines, keep, i) ==
  IF i > Len(lines) THEN <<>>
  ELSE (IF i \in keep THEN <<lines[i]>> ELSE <<>>) \o KeptLines(lines, keep, i + 1)

\* rebuildM3U8 (part_003): the lines kept are chosen by index; the main
\* headers count as the first headers.main.length lines
rebuildM3U8(parsed, segs, lines) ==
  LET keep == (1..Len(parsed.main))
              \cup UNION {s.startLine..s.endLine : s \in {segs[j] : j \in 1..Len(segs)}}
              \cup {i \in 1..Len(lines) : lines[i].t \in CriticalTags}
  IN  updateM3U8Headers(KeptLines(lines, keep, 1), segs,
                        IF segs = <<>> THEN 0 ELSE segs[1].index)

\* SuperFilterAdsFromM3U8 (part_003) with CONFIG.FILTER_REGEX = null
SuperFilterAdsFromM3U8(content) ==
  LET parsed == parseM3U8Structure(content)
      stats == calculateSegmentStats(parsed.segments)
  IN  IF content = <<>> THEN <<>>
      ELSE IF parsed.segments = <<>> THEN content
      ELSE rebuildM3U8(parsed, applyFilterDecision(parsed.segments, stats), content)

RECURSIVE Flatten(_)
Flatten(seqs) == IF seqs = <<>> THEN <<>> ELSE Head(seqs) \o Flatten(Tail(seqs))

\* array_unique: the first occurrence of every line stays, in the order of
\* the lines
ArrayUnique(lines) ==
  LET first == {i \in 1..Len(lines) : \A j \in 1..(i - 1) : lines[j] # lines[i]}
  IN  [k \in 1..Cardinality(first) |->
         lines[CHOOSE i \in first : Cardinality({j \in first : j <= i}) = k]]

\* rebuildM3U8 (m3u8filter.php): the lines kept are collected by content;
\* array_filter keeps the keys, so $segments[0] is segment 0 or is not set
rebuildM3U8Php(parsed, segs, lines) ==
  LET keepLines == parsed.main
                   \o Flatten([j \in 1..Len(segs) |-> segs[j].content])
                   \o SelectSeq(lines, LAMBDA l : l.t \in CriticalTags)
  IN  CHOOSE text \in {updateM3U8Headers(unique, segs, 0) :
                         unique \in {ArrayUnique(k) : k \in {keepLines}}} : TRUE

\* filterDiscontinuity($content, null) of m3u8filter.php; $parsed, $stats and
\* the filtered segments are variables of the script, each computed once:
\* an element drawn from a set of one value
filterDiscontinuityPhp(content) ==
  CHOOSE text \in
    {IF content = <<>> THEN content
     ELSE IF parsed.segments = <<>> THEN content
     ELSE CHOOSE rebuilt \in
            {rebuildM3U8Php(parsed, kept, content) :
               kept \in {applyFilterDecision(parsed.segments, stats) :
                           stats \in {calculateSegmentStats(parsed.segments)}}} : TRUE :
       parsed \in {parseM3U8Structure(content)}} : TRUE

(* ----------------------- URL resolver on strings ---------------------- *)

\* A URL string is a sequence of pieces: a scheme with its '//' first, then
\* names and '/'.  The pieces the resolver is applied to:
SchemePieces == {"https://", "http://", "HTTP://"}

\* string.length of a piece
PieceLen(c) ==
  CASE c \in {"https://"} -> 8
    [] c \in {"http://", "HTTP://"} -> 7
    [] c = "/" -> 1
    [] c = "a" -> 1
    [] c = "abs" -> 3
    [] c = "live" -> 4
    [] c = "stream" -> 6
    [] c = "seg.ts" -> 6
    [] c \in {"seg001.ts", "other.cdn"} -> 9
    [] c = "index.m3u8" -> 10
    [] c = "cdn.example.com" -> 15
    [] OTHER -> 1

RECURSIVE StrLen(_)
StrLen(s) == IF s = <<>> THEN 0 ELSE PieceLen(Head(s)) + StrLen(Tail(s))

\* the position of the last '/' piece, 0 without one
LastSlashPiece(s) ==
  IF \E i \in 1..Len(s) : s[i] = "/"
    THEN CHOOSE i \in 1..Len(s) : s[i] = "/" /\ \A j \in (i + 1)..Len(s) : s[j] # "/"
    ELSE 0

\* s.lastIndexOf('/'): the '//' of a scheme counts
lastIndexOf(s) ==
  LET k == LastSlashPiece(s)
      schemes == {i \in 1..Len(s) : s[i] \in SchemePieces}
      m == IF schemes = {} THEN 0
           ELSE CHOOSE i \in schemes : \A j \in schemes : j <= i
  IN  IF k > m THEN StrLen(SubSeq(s, 1, k - 1))
      ELSE IF m > 0 THEN StrLen(SubSeq(s, 1, m)) - 1
      ELSE -1

\* the exception a URL constructor throws
TypeError == <<"TypeError">>

\* relativeUrl.match(/^https?:\/\//i), preg_match('/^https?:\/\//i', ..)
IsAbsoluteRef(ref) == ref # <<>> /\ ref[1] \in SchemePieces

\* new URL(s) / parse_url(s): scheme and host when the string has both, and
\* the path as it is written ('' when there is none)
ParseUrl(s) ==
  IF Len(s) >= 2 /\ s[1] \in SchemePieces /\ s[2] \notin SchemePieces \cup {"/"}
    THEN [ok |-> TRUE, scheme |-> s[1], host |-> s[2], path |-> SubSeq(s, 3, Len(s))]
    ELSE [ok |-> FALSE, scheme |-> "", host |-> "", path |-> s]

\* URL.origin: the scheme is lower case there
Origin2(u) == <<IF u.scheme = "HTTP://" THEN "http://" ELSE u.scheme, u.host>>

\* the path up to its last '/', '/' for a path without one
DirOf(path) ==
  IF LastSlashPiece(path) = 0 THEN <<"/">> ELSE SubSeq(path, 1, LastSlashPiece(path))

\* getBaseUrl of deno.ts
getBaseUrlString(url) ==
  LET u == ParseUrl(url) IN
  IF u.ok THEN Origin2(u) \o DirOf(u.path)
  ELSE IF lastIndexOf(url) > 8 THEN SubSeq(url, 1, LastSlashPiece(url))
  ELSE url

\* new URL(relativeUrl, baseUrl).toString() for a reference without scheme,
\* '//', dot segments and query
NewUrl(ref, base) ==
  LET u == ParseUrl(base) IN
  IF ~u.ok THEN TypeError
  ELSE IF ref # <<>> /\ ref[1] = "/" THEN Origin2(u) \o ref
  ELSE Origin2(u) \o DirOf(u.path) \o ref

\* resolveUrl of deno.ts: the catch block builds new URL(baseUrl) again for
\* a reference that starts with '/'
resolveUrlString(baseUrl, relativeUrl) ==
  IF IsAbsoluteRef(relativeUrl) THEN relativeUrl
  ELSE IF NewUrl(relativeUrl, baseUrl) # TypeError THEN NewUrl(relativeUrl, baseUrl)
  ELSE IF relativeUrl # <<>> /\ relativeUrl[1] = "/" THEN TypeError
  ELSE baseUrl \o relativeUrl

\* resolveUrl of the Node script: the catch block builds new URL(baseUrl)
\* first of all
resolveUrlNode(baseUrl, relativeUrl) ==
  IF IsAbsoluteRef(relativeUrl) THEN relativeUrl
  ELSE NewUrl(relativeUrl, baseUrl)

\* dirname($path) . '/' of a path that does not end in '/': dirname of a
\* path with one segment is '/' already
DirnameSlash(path) ==
  LET k == LastSlashPiece(path) IN
  IF k = 0 THEN <<".", "/">>
  ELSE IF k = 1 THEN <<"/", "/">>
  ELSE SubSeq(path, 1, k - 1) \o <<"/">>

\* resolveUrl of m3u8filter.php
resolveUrlPhp(baseUrl, relativeUrl) ==
  LET parsed == ParseUrl(baseUrl) IN
  IF IsAbsoluteRef(relativeUrl) THEN relativeUrl
  ELSE IF ~parsed.ok THEN relativeUrl
  ELSE IF relativeUrl # <<>> /\ relativeUrl[1] = "/"
    THEN <<parsed.scheme, parsed.host>> \o relativeUrl
  ELSE IF parsed.path # <<>> /\ parsed.path[Len(parsed.path)] # "/"
    THEN <<parsed.scheme, parsed.host>> \o DirnameSlash(parsed.path) \o relativeUrl
  ELSE <<parsed.scheme, parsed.host>> \o parsed.path \o relativeUrl

\* getBaseDirectoryUrl of m3u8filter.php
getBaseDirectoryUrlPhp(url) ==
  LET parsed == ParseUrl(url) IN
  IF parsed.path = <<>> THEN url
  ELSE (IF parsed.ok THEN <<parsed.scheme, parsed.host>> ELSE <<"https://">>)
         \o DirOf(parsed.path)

(* ------------------------------- state -------------------------------- *)

VARIABLES
  impl,    \* the script that serves the requests
  env,     \* the environment variables deno-cache.ts reads its proxies from
  cache,   \* the cache store: key -> [status, ctype, body, raw]
  run,     \* the request slots: position and locals of each handler run
  served,  \* number of requests received so far
  call     \* a function of the scripts applied on its own: [fn, in, out]

vars == <<impl, env, cache, run, served, call>>

\* no function is applied on its own while requests are served
NoCall == [fn |-> "none", in |-> <<>>, out |-> <<>>]

NoResp == [kind |-> "none", status |-> 0, body |-> <<>>, loc |-> NoUrl, reason |-> ""]

\* pc is the await the run is suspended at; fetches counts the calls of the
\* fetch collaborator, wrote collects the cache keys the run has put, had /
\* hit record what the handler's cache lookup found, met collects the
\* failure conditions the run has come across.
IdleRun ==
  [pc |-> "idle", target |-> NoUrl, url |-> NoUrl, variant |-> NoUrl,
   content |-> <<>>, depth |-> 0, stack |-> <<>>, result |-> <<>>,
   fetches |-> 0, wrote |-> {}, had |-> FALSE, hit |-> FALSE, met |-> {},
   resp |-> NoResp]

Init ==
  /\ impl \in Impls
  /\ env \in [PROXY_URL : BOOLEAN, PROXY_TS : BOOLEAN]
  /\ (impl # "denocache" => env = [PROXY_URL |-> TRUE, PROXY_TS |-> TRUE])
  /\ cache = << >>
  /\ run = [p \in Runs |-> IdleRun]
  /\ served = 0
  /\ call = NoCall

(* ----------------------------- responses ------------------------------ *)

\* createM3u8Response(content)
createM3u8Response(body) ==
  [kind |-> "playlist", status |-> 200, body |-> body, loc |-> NoUrl, reason |-> ""]

\* Response.redirect(loc, 302)
Redirect(loc) ==
  [kind |-> "redirect", status |-> 302, body |-> <<>>, loc |-> loc, reason |-> ""]

\* createResponse(`Error processing request: ${reason}`, status, text/plain)
createErrorResponse(reason, status) ==
  [kind |-> "error", status |-> status, body |-> <<>>, loc |-> NoUrl, reason |-> reason]

Processed(body) == [status |-> 200, ctype |-> "mpegurl", body |-> body, raw |-> FALSE]

CachePut(c, key, entry) == [k \in DOMAIN c \cup {key} |-> IF k = key THEN entry ELSE c[k]]

\* the scripts that test the cached string for truthiness: '' is a miss
TruthyHit == {"deno", "kv", "node"}

CacheHit(im, c, key) ==
  /\ key \in DOMAIN c
  /\ (im \in TruthyHit => ~IsEmptyString(c[key].body))

Set(p, r) == run' = [run EXCEPT ![p] = r]

\* one more call of the fetch collaborator; the count stops at MaxCount
MaxCount == MAX_RECURSION + 3

Count(n) == IF n < MaxCount THEN n + 1 ELSE n

Fail(r, reason, cond) ==
  [r EXCEPT !.pc = "done", !.met = @ \cup {cond},
            !.resp = createErrorResponse(reason, 500)]

(* ------------------------- the request handler ------------------------ *)

\* a request for target t arrives and takes the first free slot
Request(p, t) ==
  /\ run[p].pc = "idle"
  /\ \A q \in 1..(p - 1) : run[q].pc # "idle"
  /\ served < MaxRequests
  /\ Set(p, [IdleRun EXCEPT !.pc = "lookup", !.target = t, !.url = t])
  /\ served' = served + 1
  /\ UNCHANGED <<call, impl, env, cache>>

\* handleRequest / processM3u8Url: the cache check at the start
CacheLookup(p) ==
  LET r == run[p] IN
  /\ r.pc = "lookup"
  /\ IF CacheHit(impl, cache, r.target)
       THEN Set(p, [r EXCEPT !.pc = "done", !.had = TRUE, !.hit = TRUE,
                             !.resp = createM3u8Response(cache[r.target].body)])
       ELSE Set(p, [r EXCEPT !.pc = "fetch", !.had = (r.target \in DOMAIN cache)])
  /\ UNCHANGED <<call, impl, env, cache, served>>

JsHandlers == {"deno", "kv", "cacheapi", "denocache"}

VariantCaching == {"kv", "cacheapi"}

\* fetchContentWithType: [ok, ctype, body, reason, called, cache] where called
\* says that the fetch collaborator was invoked; deno-cache.ts goes through
\* fetchWithCache, which answers from the cache store or fills it
fetchContentWithType(im, e, c, url) ==
  LET o == Origin(url)
      fetchUrl == IF MainProxySet(im, e) THEN Wrap("main", url) ELSE url
      good == o.net /\ o.status = 200
      fresh == [ok |-> good, ctype |-> o.ctype, body |-> o.body, called |-> TRUE,
                cache |-> c]
  IN  IF im # "denocache" THEN fresh
      ELSE IF fetchUrl \in DOMAIN c
        THEN [ok |-> TRUE, ctype |-> c[fetchUrl].ctype, body |-> c[fetchUrl].body,
              called |-> FALSE, cache |-> c]
      ELSE IF good
        THEN [fresh EXCEPT !.cache =
                CachePut(c, fetchUrl, [status |-> 200, ctype |-> o.ctype,
                                       body |-> o.body, raw |-> TRUE])]
      ELSE fresh

\* handleRequest: fetch of the target, content check and redirects
FetchTarget(p) ==
  LET r == run[p]
      f == fetchContentWithType(impl, env, cache, r.target)
      r1 == [r EXCEPT !.fetches = IF f.called THEN Count(@) ELSE @]
  IN
  /\ impl \in JsHandlers
  /\ r.pc = "fetch"
  /\ cache' = f.cache
  /\ IF ~f.ok THEN Set(p, Fail(r1, "fetch", "fetch"))
     ELSE IF ~isM3u8Content(f.body, f.ctype)
       THEN Set(p, [r1 EXCEPT !.pc = "done", !.resp =
              IF isMediaFile(r.target, f.ctype)
                THEN Redirect(proxyTsUrl(TsProxySet(impl, env), r.target))
                ELSE Redirect(r.target)])
     ELSE Set(p, [r1 EXCEPT !.pc = "process", !.content = f.body])
  /\ UNCHANGED <<call, impl, env, served>>

\* after the innermost level has returned: the pending puts of the outer
\* levels, then the handler
Return(r, body) ==
  [r EXCEPT !.result = body, !.pc = IF r.stack # <<>> THEN "vstore" ELSE "respond"]

\* ProcessContent with the recursion bound one level further
ProcessContentDeeper(p) ==
  LET r == run[p]
      v == SelectVariant(r.url, r.content)
  IN
  /\ impl \in JsHandlers
  /\ r.pc = "process"
  /\ IF Includes(r.content, "STREAMINF")
       THEN IF r.depth > MAX_RECURSION + 1 THEN Set(p, Fail(r, "recursion", "recursion"))
            ELSE IF v = NoUrl THEN Set(p, Fail(r, "novariant", "novariant"))
            ELSE Set(p, [r EXCEPT !.variant = v,
                           !.pc = IF impl \in VariantCaching THEN "vlookup" ELSE "vfetch"])
       ELSE Set(p, Return(r, processMediaPlaylist(r.url, r.content,
                     TsProxySet(impl, env),
                     IF impl = "cacheapi" THEN FALSE ELSE FILTER_DISCONTINUITY)))
  /\ UNCHANGED <<call, impl, env, cache, served>>

\* processM3u8Content and processMasterPlaylist up to the next await
ProcessContent(p) ==
  LET r == run[p]
      v == SelectVariant(r.url, r.content)
  IN
  /\ impl \in JsHandlers
  /\ r.pc = "process"
  /\ IF Includes(r.content, "STREAMINF")
       THEN IF r.depth > MAX_RECURSION THEN Set(p, Fail(r, "recursion", "recursion"))
            ELSE IF v = NoUrl THEN Set(p, Fail(r, "novariant", "novariant"))
            ELSE Set(p, [r EXCEPT !.variant = v,
                           !.pc = IF impl \in VariantCaching THEN "vlookup" ELSE "vfetch"])
       ELSE Set(p, Return(r, processMediaPlaylist(r.url, r.content,
                     TsProxySet(impl, env),
                     IF impl = "cacheapi" THEN FALSE ELSE FILTER_DISCONTINUITY)))
  /\ UNCHANGED <<call, impl, env, cache, served>>

\* processMasterPlaylist: "Check cache first for variant"
VariantLookup(p) ==
  LET r == run[p] IN
  /\ impl \in VariantCaching
  /\ r.pc = "vlookup"
  /\ IF CacheHit(impl, cache, r.variant)
       THEN Set(p, Return(r, cache[r.variant].body))
       ELSE Set(p, [r EXCEPT !.pc = "vfetch"])
  /\ UNCHANGED <<call, impl, env, cache, served>>

\* processMasterPlaylist: fetch of the selected variant
FetchVariant(p) ==
  LET r == run[p]
      f == fetchContentWithType(impl, env, cache, r.variant)
      r1 == [r EXCEPT !.fetches = IF f.called THEN Count(@) ELSE @]
  IN
  /\ impl \in JsHandlers
  /\ r.pc = "vfetch"
  /\ cache' = f.cache
  /\ IF ~f.ok THEN Set(p, Fail(r1, "fetch", "fetch"))
     ELSE Set(p, [r1 EXCEPT !.pc = "process", !.url = r.variant, !.content = f.body,
                   !.depth = @ + 1,
                   !.stack = IF impl \in VariantCaching THEN Append(@, r.variant) ELSE @])
  /\ UNCHANGED <<call, impl, env, served>>

\* StoreVariant with the fetched text of the variant put in place of the
\* processed text
StoreVariantRaw(p) ==
  LET r == run[p]
      key == r.stack[Len(r.stack)]
  IN
  /\ impl \in VariantCaching
  /\ r.pc = "vstore"
  /\ cache' = CachePut(cache, key, Processed(r.content))
  /\ Set(p, [r EXCEPT !.stack = SubSeq(@, 1, Len(@) - 1), !.wrote = @ \cup {key},
                !.pc = IF Len(r.stack) = 1 THEN "respond" ELSE "vstore"])
  /\ UNCHANGED <<call, impl, env, served>>

\* processMasterPlaylist: "Cache the variant result", innermost level first
StoreVariant(p) ==
  LET r == run[p]
      key == r.stack[Len(r.stack)]
  IN
  /\ impl \in VariantCaching
  /\ r.pc = "vstore"
  /\ cache' = CachePut(cache, key, Processed(r.result))
  /\ Set(p, [r EXCEPT !.stack = SubSeq(@, 1, Len(@) - 1), !.wrote = @ \cup {key},
                !.pc = IF Len(r.stack) = 1 THEN "respond" ELSE "vstore"])
  /\ UNCHANGED <<call, impl, env, served>>

\* handleRequest: "Cache the result" and the playlist response
Respond(p) ==
  LET r == run[p]
      processed == IF impl = "cacheapi" THEN SuperFilterAdsFromM3U8(r.result)
                   ELSE r.result
  IN
  /\ impl \in JsHandlers
  /\ r.pc = "respond"
  /\ cache' = CachePut(cache, r.target, Processed(processed))
  /\ Set(p, [r EXCEPT !.pc = "done", !.wrote = @ \cup {r.target},
                !.resp = createM3u8Response(processed)])
  /\ UNCHANGED <<call, impl, env, served>>

(* ------------------- the worker script of part_003 -------------------- *)

\* processM3u8Url(url, recursionDepth) from its fetch on, with the
\* processMasterPlaylist that calls the next level
WorkerProcess(p) ==
  LET r == run[p]
      o == Origin(r.url)
      r1 == [r EXCEPT !.fetches = Count(@)]
      v == SelectVariant(r.url, o.body)
  IN
  /\ impl = "worker"
  /\ r.pc = "fetch"
  /\ IF ~(o.net /\ o.status = 200) THEN Set(p, Fail(r1, "fetch", "fetch"))
     ELSE IF ~Includes(o.body, "EXTM3U") THEN Set(p, Fail(r1, "invalid", "invalid"))
     ELSE IF Includes(o.body, "STREAMINF")
       THEN IF v = NoUrl THEN Set(p, Fail(r1, "novariant", "novariant"))
            ELSE IF r.depth + 1 > MAX_RECURSION
              THEN Set(p, Fail(r1, "recursion", "recursion"))
            ELSE Set(p, [r1 EXCEPT !.url = v, !.depth = @ + 1])
     ELSE Set(p, [r1 EXCEPT !.pc = "respond", !.result =
            processMediaPlaylist(r.url, o.body, TRUE, FILTER_DISCONTINUITY)])
  /\ UNCHANGED <<call, impl, env, cache, served>>

\* handleRequest after processM3u8Url: the identifier event of
\* event.waitUntil(cache.put(..)) is not bound in handleRequest(request), the
\* ReferenceError is caught by the handler's catch
WorkerRespond(p) ==
  LET r == run[p] IN
  /\ impl = "worker"
  /\ r.pc = "respond"
  /\ Set(p, Fail(r, "event is not defined", "reference"))
  /\ UNCHANGED <<call, impl, env, cache, served>>

(* -------------------- the server script of part_002 ------------------- *)

\* new Response(content, {headers: {'Content-Type': contentType}})
Passthrough(body) ==
  [kind |-> "content", status |-> 200, body |-> body, loc |-> NoUrl, reason |-> ""]

\* handleNonM3U8Content
handleNonM3U8Content(o, url) == IF ~o.big THEN Passthrough(o.body) ELSE Redirect(url)

\* handleRequest from fetchWithRedirects on
ServerHandle(p) ==
  LET r == run[p]
      o == Origin(r.target)
      r1 == [r EXCEPT !.fetches = Count(@)]
      depth == 0
      processed == processM3U8Content(o.body, r.target)
  IN
  /\ impl = "server"
  /\ r.pc = "fetch"
  /\ IF ~o.net
       THEN Set(p, Fail(r1, "fetch", "fetch")) /\ UNCHANGED cache
     ELSE IF o.status # 200
       THEN /\ Set(p, [r1 EXCEPT !.pc = "done", !.met = @ \cup {"fetch"},
                         !.resp = createErrorResponse("fetch", o.status)])
            /\ UNCHANGED cache
     ELSE IF ~isM3U8ContentServer(o.body, o.ctype)
       THEN /\ Set(p, [r1 EXCEPT !.pc = "done",
                         !.resp = handleNonM3U8Content(o, r.target)])
            /\ UNCHANGED cache
     ELSE IF depth > MAX_REDIRECTS
       THEN Set(p, Fail(r1, "depth", "recursion")) /\ UNCHANGED cache
     ELSE /\ cache' = CachePut(cache, r.target, Processed(processed))
          /\ Set(p, [r1 EXCEPT !.pc = "done", !.wrote = @ \cup {r.target},
                       !.result = processed, !.resp = createM3u8Response(processed)])
  /\ UNCHANGED <<call, impl, env, served>>

(* ------------------------- m3u8filter.php (v2) ------------------------ *)

\* processM3u8Url after the loop: filter, rewrite, writeToCache, echo
PhpFinish(r, c, content) ==
  CHOOSE next \in
    {[run |-> [r EXCEPT !.pc = "done", !.result = modified,
                        !.wrote = @ \cup {r.target},
                        !.resp = createM3u8Response(modified)],
      cache |-> CachePut(c, r.target, Processed(modified))] :
       modified \in {modifyM3u8Urls(filtered, getBaseUrl(r.url), TRUE) :
                       filtered \in {filterDiscontinuityPhp(content)}}} : TRUE

\* PhpLoopHead with $recursionCount set to 0 inside the loop
PhpLoopHeadCountReset(r, c, content) ==
  IF ~Includes(content, "STREAMINF") THEN PhpFinish(r, c, content)
  ELSE [run |-> [r EXCEPT !.pc = "loop", !.content = content, !.depth = 0],
        cache |-> c]

\* the head of the while loop: r.depth is $recursionCount
PhpLoopHead(r, c, content) ==
  IF ~Includes(content, "STREAMINF") THEN PhpFinish(r, c, content)
  ELSE IF r.depth >= MAX_RECURSION
    THEN PhpFinish([r EXCEPT !.met = @ \cup {"recursion"}], c, content)
  ELSE [run |-> [r EXCEPT !.pc = "loop", !.content = content], cache |-> c]

\* processM3u8Url from the first curlFetch to the next one; curlFetch does not
\* look at the HTTP status
PhpFetchTarget(p) ==
  LET r == run[p]
      o == Origin(r.target)
      r1 == [r EXCEPT !.fetches = Count(@),
                      !.met = IF o.net /\ o.status = 200 THEN @ ELSE @ \cup {"fetch"}]
      next == PhpLoopHead(r1, cache, o.body)
  IN
  /\ impl = "php"
  /\ r.pc = "fetch"
  /\ IF ~isM3u8Content(o.body, o.ctype)
       THEN /\ Set(p, [r1 EXCEPT !.pc = "done", !.resp =
                   IF isMediaFile(r.target, o.ctype)
                     THEN Redirect(proxyTsUrl(TRUE, r.target))
                     ELSE Redirect(r.target)])
            /\ UNCHANGED cache
       ELSE Set(p, next.run) /\ cache' = next.cache
  /\ UNCHANGED <<call, impl, env, served>>

\* one round of the while loop: choice of the next URL and its curlFetch
PhpLoop(p) ==
  LET r == run[p]
      v == phpVariant(r.url, r.content)
      o == Origin(v)
      r1 == [r EXCEPT !.fetches = Count(@), !.url = v,
                      !.met = @ \cup (IF v = r.url THEN {"novariant"} ELSE {})
                                \cup (IF o.net /\ o.status = 200 THEN {} ELSE {"fetch"})]
      next == IF ~o.net \/ IsEmptyString(o.body)
                THEN PhpFinish([r1 EXCEPT !.met = @ \cup {"fetch"}], cache, r.content)
                ELSE PhpLoopHead([r1 EXCEPT !.depth = @ + 1], cache, o.body)
  IN
  /\ impl = "php"
  /\ r.pc = "loop"
  /\ Set(p, next.run)
  /\ cache' = next.cache
  /\ UNCHANGED <<call, impl, env, served>>

(* ---------------------- the Node script (server.js) ------------------- *)

\* processM3u8Url after the loop: filter, rewrite, writeToCache, 200
NodeFinish(r, c, content) ==
  LET modified == modifyM3u8Urls(filterDiscontinuity(content), getBaseUrl(r.url), TRUE)
  IN  [run |-> [r EXCEPT !.pc = "done", !.result = modified,
                         !.wrote = @ \cup {r.target},
                         !.resp = createM3u8Response(modified)],
       cache |-> CachePut(c, r.target, Processed(modified))]

\* the head of the while loop and the choice of the variant
NodeLoopHead(r, c, content) ==
  LET v == nodeVariant(r.url, content) IN
  IF ~Includes(content, "STREAMINF") THEN NodeFinish(r, c, content)
  ELSE IF ~(r.depth < MAX_RECURSION)
    THEN NodeFinish([r EXCEPT !.met = @ \cup {"recursion"}], c, content)
  ELSE IF v = NoUrl
    THEN NodeFinish([r EXCEPT !.met = @ \cup {"novariant"}], c, content)
  ELSE [run |-> [r EXCEPT !.pc = "loop", !.content = content, !.variant = v],
        cache |-> c]

\* processM3u8Url from the first fetchContentWithType to the next one
NodeFetchTarget(p) ==
  LET r == run[p]
      o == Origin(r.target)
      r1 == [r EXCEPT !.fetches = Count(@)]
      next == NodeLoopHead(r1, cache, o.body)
  IN
  /\ impl = "node"
  /\ r.pc = "fetch"
  /\ IF ~(o.net /\ o.status = 200)
       THEN Set(p, Fail(r1, "fetch", "fetch")) /\ UNCHANGED cache
     ELSE IF ~isM3u8Content(o.body, o.ctype)
       THEN /\ Set(p, [r1 EXCEPT !.pc = "done", !.resp =
                   IF isMediaFile(r.target, o.ctype)
                     THEN Redirect(proxyTsUrl(TRUE, r.target))
                     ELSE Redirect(r.target)])
            /\ UNCHANGED cache
     ELSE Set(p, next.run) /\ cache' = next.cache
  /\ UNCHANGED <<call, impl, env, served>>

\* one round of the while loop: the fetch of the variant
NodeLoop(p) ==
  LET r == run[p]
      o == Origin(r.variant)
      r1 == [r EXCEPT !.fetches = Count(@)]
      next == NodeLoopHead([r1 EXCEPT !.url = r.variant, !.depth = @ + 1],
                           cache, o.body)
  IN
  /\ impl = "node"
  /\ r.pc = "loop"
  /\ IF ~(o.net /\ o.status = 200)
       THEN Set(p, Fail(r1, "fetch", "fetch")) /\ UNCHANGED cache
       ELSE Set(p, next.run) /\ cache' = next.cache
  /\ UNCHANGED <<call, impl, env, served>>

\* the response has been sent; the slot is free again
Finish(p) ==
  /\ run[p].pc = "done"
  /\ Set(p, IdleRun)
  /\ UNCHANGED <<call, impl, env, cache, served>>

Next ==
  \E p \in Runs :
    \/ \E t \in Targets : Request(p, t)
    \/ CacheLookup(p)
    \/ FetchTarget(p)
    \/ ProcessContent(p)
    \/ VariantLookup(p)
    \/ FetchVariant(p)
    \/ StoreVariant(p)
    \/ Respond(p)
    \/ WorkerProcess(p)
    \/ WorkerRespond(p)
    \/ ServerHandle(p)
    \/ PhpFetchTarget(p)
    \/ PhpLoop(p)
    \/ NodeFetchTarget(p)
    \/ NodeLoop(p)
    \/ Finish(p)

Spec == Init /\ [][Next]_vars

\* a step of the run in slot p: everything but the arrival of a request
RunStep(p) ==
  \/ CacheLookup(p)
  \/ FetchTarget(p)
  \/ ProcessContent(p)
  \/ VariantLookup(p)
  \/ FetchVariant(p)
  \/ StoreVariant(p)
  \/ Respond(p)
  \/ WorkerProcess(p)
  \/ WorkerRespond(p)
  \/ ServerHandle(p)
  \/ PhpFetchTarget(p)
  \/ PhpLoop(p)
  \/ NodeFetchTarget(p)
  \/ NodeLoop(p)
  \/ Finish(p)

\* the number of requests in the behaviours that are checked for progress
MaxLiveRequests == 1

LiveRequest(p, t) == served < MaxLiveRequests /\ Request(p, t)

LiveNext == \E p \in Runs : (\E t \in Targets : LiveRequest(p, t)) \/ RunStep(p)

\* every fetch and every cache call returns: a run that can go on does
FairSpec == Init /\ [][LiveNext]_vars /\ \A p \in Runs : WF_vars(RunStep(p))

(* ------------------------------ properties ---------------------------- *)

Done(p) == run[p].pc = "done"

\* the run in slot p met a fetch failure, the recursion bound or a master
\* playlist without variant
Failed(p) == run[p].met \cap {"fetch", "recursion", "novariant"} # {}

\* the targets whose chain of master playlists is deeper than MAX_RECURSION
DeepTargets == {Master(0), CycleUrl}

\* C1: a run whose target has a live cache entry when the handler looks it up
\* answers with the cached text and never calls the fetch collaborator
\* (deno.ts, part_001, m3u8filter.php)
C1_CachedTargetIsServedWithoutFetch ==
  \A p \in Runs :
    (impl \in {"deno", "kv", "php"} /\ Done(p) /\ run[p].had)
      => /\ run[p].hit
         /\ run[p].fetches = 0
         /\ run[p].resp.kind = "playlist"

\* C2: a run on a chain of master playlists deeper than MAX_RECURSION ends in
\* the recursion failure; it answers no playlist and caches none
\* (deno.ts, m3u8filter.php, the Node script)
C2_DeepChainEndsInRecursionFailure ==
  \A p \in Runs :
    (impl \in {"deno", "php", "node"} /\ Done(p) /\ run[p].target \in DeepTargets)
      => /\ run[p].resp.kind = "error"
         /\ "recursion" \in run[p].met
         /\ run[p].target \notin DOMAIN cache

\* C3: a run that met a fetch failure, the recursion bound or a master without
\* variant has written no cache entry (part_003, part_001, m3u8filter.php)
C3_FailedRunWritesNoCacheEntry ==
  \A p \in Runs :
    (impl \in {"cacheapi", "kv", "php"} /\ Done(p) /\ Failed(p))
      => run[p].wrote = {}

\* C4: a run whose target is a master playlist without selectable variant ends
\* in an error after that one fetch; the master body is neither returned nor
\* cached (deno.ts, m3u8filter.php, the Node script)
C4_MasterWithoutVariantFails ==
  \A p \in Runs :
    (impl \in {"deno", "php", "node"} /\ Done(p) /\ run[p].target = NoVariantUrl
       /\ ~run[p].hit)
      => /\ run[p].resp.kind = "error"
         /\ run[p].fetches = 1
         /\ run[p].wrote = {}

\* C5: no cache entry under a key that the handler's lookup reads (a target
\* URL as the client gives it) holds a raw upstream body (deno-cache.ts)
C5_LookupKeysHoldRewrittenText ==
  impl = "denocache"
    => \A k \in DOMAIN cache : k.wrap = <<>> => ~cache[k].raw

\* C6: every request for a target whose content is a media file and no
\* playlist is answered by a 302 to the segment-proxy URL of the target,
\* whatever was served before (deno-cache.ts, part_002)
C6_MediaFileIsRedirectedToSegmentProxy ==
  \A p \in Runs :
    (impl \in {"denocache", "server"} /\ Done(p) /\ run[p].target = ClipUrl)
      => run[p].resp = Redirect(proxyTsUrl(TsProxySet(impl, env), ClipUrl))

\* C7: a run on an uncached target whose fetch returns a valid media playlist
\* answers 200 with the rewritten playlist, and the cache then holds this
\* body under the target (the worker script of part_003, deno.ts)
C7_UncachedMediaPlaylistIsServedAndCached ==
  \A p \in Runs :
    (impl \in {"worker", "deno"} /\ Done(p) /\ run[p].target = MediaUrl
       /\ ~run[p].had)
      => /\ run[p].resp =
              createM3u8Response(processMediaPlaylist(MediaUrl, MediaBody, TRUE,
                                                      FILTER_DISCONTINUITY))
         /\ MediaUrl \in DOMAIN cache
         /\ cache[MediaUrl].body = run[p].resp.body

\* C8: a run that met a fetch failure or non-2xx status, the recursion bound
\* or a master without variant answers 500 with the reason, never another
\* status (deno.ts, part_002, m3u8filter.php)
C8_FailureIsAnswered500 ==
  \A p \in Runs :
    (impl \in {"deno", "server", "php"} /\ Done(p) /\ Failed(p))
      => /\ run[p].resp.kind = "error"
         /\ run[p].resp.status = 500
         /\ run[p].resp.reason # ""

C10_EveryRunEnds ==
  \A p \in Runs : (run[p].pc \notin {"idle", "done"}) ~> Done(p)

\* C10: a run on the master playlist that names itself as its variant has
\* ended, after MAX_RECURSION rounds and more
C10_Witness ==
  \E p \in Runs :
    /\ impl \in {"deno", "php"}
    /\ Done(p)
    /\ run[p].target = CycleUrl
    /\ run[p].fetches > MAX_RECURSION

\* C25: the text served and cached for the URL of a media playlist is the
\* text a direct request for it writes into an empty cache, also when the
\* entry was written while a master playlist that selects it was resolved
\* (part_001, the first script of part_003)
C25_MediaPlaylistTextIsOrderIndependent ==
  LET rewritten == processMediaPlaylist(MediaUrl, MediaBody, TRUE,
                     IF impl = "cacheapi" THEN FALSE ELSE FILTER_DISCONTINUITY)
      direct == IF impl = "cacheapi" THEN SuperFilterAdsFromM3U8(rewritten)
                ELSE rewritten
  IN  impl \in {"kv", "cacheapi"}
        => /\ CacheHit(impl, cache, MediaUrl) => cache[MediaUrl].body = direct
           /\ \A p \in Runs :
                (Done(p) /\ run[p].target = MediaUrl /\ run[p].resp.kind = "playlist")
                  => run[p].resp.body = direct

\* C26: a run whose target was not cached calls the fetch collaborator at
\* most MAX_RECURSION + 2 times, whatever the chain of master playlists,
\* and a run on a chain of at most MAX_RECURSION nested master playlists
\* that ends in a media playlist is not rejected: it ends with the
\* rewritten media playlist (the first script of part_003; the worker
\* script, whose processM3u8Url is that of deno.ts:138-191; deno.ts;
\* m3u8filter.php)
C26_FetchesAreBoundedAndShortChainsResolve ==
  \A p \in Runs :
    (impl \in {"cacheapi", "worker", "deno", "php"} /\ ~run[p].had)
      => /\ run[p].fetches <= MAX_RECURSION + 2
         /\ ( /\ Done(p)
              /\ run[p].target \in
                   {MediaUrl} \cup {Master(i) : i \in (ChainLen - MAX_RECURSION)..(ChainLen - 1)} )
              => /\ ~Failed(p)
                 /\ Includes(run[p].result, "EXTINF")
                 /\ ~Includes(run[p].result, "STREAMINF")

\* a chain of MAX_RECURSION master playlists and the media playlist was
\* resolved with one fetch for each
C26_Witness ==
  \E p \in Runs :
    /\ impl = "cacheapi"
    /\ Done(p)
    /\ ~run[p].had
    /\ run[p].target = Master(ChainLen - MAX_RECURSION)
    /\ run[p].fetches = MAX_RECURSION + 1
    /\ run[p].resp.kind = "playlist"
    /\ Includes(run[p].result, "EXTINF")

(* --------------------- the URL resolver on its own -------------------- *)

\* while a function is applied on its own no request is served
NoRequests ==
  /\ impl = "deno"
  /\ env = [PROXY_URL |-> TRUE, PROXY_TS |-> TRUE]
  /\ cache = << >>
  /\ run = [p \in Runs |-> IdleRun]
  /\ served = 0

\* the playlist URLs the resolver is applied to: with and without scheme,
\* with zero to two directories, with and without a file name
BaseStrings ==
  {sch \o <<h>> \o dirs \o file :
     sch \in {<<>>, <<"https://">>},
     h \in {"cdn.example.com", "a"},
     dirs \in {<<>>, <<"/", "live">>, <<"/", "live", "/", "stream">>},
     file \in {<<>>, <<"/">>, <<"/", "index.m3u8">>}}

\* the references: relative, absolute-path, absolute in either case
RefStrings ==
  {<<"seg001.ts">>, <<"abs", "/", "seg001.ts">>, <<"/", "abs", "/", "seg001.ts">>,
   <<"https://", "other.cdn", "/", "seg.ts">>, <<"HTTP://", "other.cdn", "/", "seg.ts">>}

ResolveInit ==
  /\ NoRequests
  /\ \E b \in BaseStrings, r \in RefStrings :
       call = [fn |-> "none", in |-> [base |-> b, ref |-> r], out |-> <<>>]

Apply(fn, out) ==
  /\ call.fn = "none"
  /\ call' = [call EXCEPT !.fn = fn, !.out = out]
  /\ UNCHANGED <<impl, env, cache, run, served>>

\* deno.ts: resolveUrl(getBaseUrl(url), line)
DenoResolve ==
  Apply("deno.resolveUrl",
        resolveUrlString(getBaseUrlString(call.in.base), call.in.ref))

\* the Node script: resolveUrl(currentUrl, nextLine.trim())
NodeResolve == Apply("node.resolveUrl", resolveUrlNode(call.in.base, call.in.ref))

\* m3u8filter.php, the variant: resolveUrl($currentUrl, $line)
PhpResolve == Apply("php.resolveUrl", resolveUrlPhp(call.in.base, call.in.ref))

\* m3u8filter.php, the rewriter: resolveUrl(getBaseDirectoryUrl($currentUrl), ..)
PhpResolveSegment ==
  Apply("php.resolveUrl",
        resolveUrlPhp(getBaseDirectoryUrlPhp(call.in.base), call.in.ref))

ResolveNext == DenoResolve \/ NodeResolve \/ PhpResolve \/ PhpResolveSegment

ResolveSpec == ResolveInit /\ [][ResolveNext]_vars

\* C14: a reference resolved against a playlist URL that has scheme and host
\* is returned unchanged when it starts with http:// or https:// in any
\* case, replaces the path of the base when it starts with '/', and is
\* otherwise joined to the path of the base without its final segment; so
\* for https://cdn.example.com/live/stream/index.m3u8 the reference
\* seg001.ts gives https://cdn.example.com/live/stream/seg001.ts and
\* /abs/seg001.ts gives https://cdn.example.com/abs/seg001.ts.
C14_ReferenceIsResolvedAgainstBaseDirectory ==
  LET b == call.in.base
      r == call.in.ref
      path == SubSeq(b, 3, Len(b))
      dir == IF path = <<>> THEN <<"/">>
             ELSE IF path[Len(path)] = "/" THEN path
             ELSE SubSeq(path, 1, Len(path) - 1)
  IN  ( /\ call.fn \in {"deno.resolveUrl", "php.resolveUrl"}
        /\ b[1] = "https://"
        /\ b[Len(b)] = "index.m3u8" )
        => call.out = (IF r[1] \in {"https://", "HTTP://"} THEN r
                       ELSE IF r[1] = "/" THEN <<b[1], b[2]>> \o r
                       ELSE <<b[1], b[2]>> \o dir \o r)

\* C15: the resolver returns a string for every base, also one without
\* scheme and host, and for every relative or absolute-path reference: it
\* never throws.
C15_ResolverNeverThrows ==
  call.fn \in {"deno.resolveUrl", "node.resolveUrl"} => call.out # TypeError

(* ----------------------- the rewriter on its own ---------------------- *)

\* the longest playlist the rewriter is applied to, in lines
MaxLines == 3

\* the playlists the rewriter is applied to
RewriteTexts ==
  UNION {[1..n -> {LD("TARGETDURATION", 10), LD("EXTINF", 99),
                   LU("URI", Rel("seg", 1)), L("DISC"), L("DISCSEQ"), L("BLANK"),
                   LU("KEY", Rel("key", 1)), L("BYTERANGE"), L("ENDLIST")}] :
         n \in 0..MaxLines}

\* ts: PROXY_TS is not empty, fd: FILTER_DISCONTINUITY; once is the text
\* after the first pass when the rewriter has run twice
RewriteInit ==
  /\ NoRequests
  /\ \E text \in RewriteTexts, ts \in BOOLEAN, fd \in BOOLEAN :
       call = [fn |-> "none",
               in |-> [text |-> text, ts |-> ts, fd |-> fd, passes |-> 0, once |-> <<>>],
               out |-> <<>>]

\* the three rewriters, by the name they have in call.fn
Rewrite(fn, text, ts, fd) ==
  CASE fn = "deno.processMediaPlaylist" -> processMediaPlaylist(MediaUrl, text, ts, fd)
    [] fn = "php.modifyM3u8Urls" -> modifyM3u8Urls(text, getBaseUrl(MediaUrl), ts)
    [] OTHER -> modifyM3u8Urls(filterDiscontinuityV1(text, fd), getBaseUrl(MediaUrl), ts)

FirstPass(fn) ==
  /\ call.fn = "none"
  /\ call' = [fn |-> fn, in |-> [call.in EXCEPT !.passes = 1],
              out |-> Rewrite(fn, call.in.text, call.in.ts, call.in.fd)]
  /\ UNCHANGED <<impl, env, cache, run, served>>

\* deno.ts: processMediaPlaylist(url, content)
DenoRewrite == FirstPass("deno.processMediaPlaylist")

\* m3u8filter.php, second script: modifyM3u8Urls($content, $baseUrl)
PhpModify == FirstPass("php.modifyM3u8Urls")

\* m3u8filter.php, first script: modifyM3u8Urls(filterDiscontinuity($content), ..)
PhpFilterAndModify == FirstPass("php.filterDiscontinuity")

\* the rewritten text is rewritten again by the same script
RewriteAgain ==
  /\ call.fn # "none"
  /\ call.in.passes = 1
  /\ call' = [call EXCEPT !.in.passes = 2, !.in.once = call.out,
                          !.out = Rewrite(call.fn, call.out, call.in.ts, call.in.fd)]
  /\ UNCHANGED <<impl, env, cache, run, served>>

RewriteNext == DenoRewrite \/ PhpModify \/ PhpFilterAndModify \/ RewriteAgain

RewriteSpec == RewriteInit /\ [][RewriteNext]_vars

\* C11: rewriting the rewritten playlist once more, with the same settings,
\* gives the text of the first pass again: nothing is wrapped in the
\* segment proxy a second time.
C11_RewritingTwiceEqualsOnce ==
  (call.fn = "deno.processMediaPlaylist" /\ call.in.passes = 2)
    => call.out = call.in.once

\* C12: without the discontinuity filter the rewritten text holds exactly the
\* segment URIs of the playlist, resolved and wrapped in the segment proxy,
\* in their order; a segment URI is the first line that is not a tag after
\* a duration tag.
C12_EverySegmentUriIsProxiedOnce ==
  LET text == call.in.text
      segs == {j \in 1..Len(text) :
                 /\ text[j].t = "URI"
                 /\ \E i \in 1..(j - 1) :
                      /\ text[i].t = "EXTINF"
                      /\ \A k \in (i + 1)..(j - 1) : text[k].t # "URI"}
      kth(k) == CHOOSE j \in segs : Cardinality({i \in segs : i <= j}) = k
      proxied == SelectSeq(call.out, LAMBDA l : l.t = "URI" /\ l.u.abs)
  IN  ( /\ call.fn \in {"deno.processMediaPlaylist", "php.modifyM3u8Urls"}
        /\ call.in.passes = 1
        /\ ~call.in.fd )
        => proxied = [k \in 1..Cardinality(segs) |->
                        LU("URI", proxyTsUrl(call.in.ts,
                                   resolveUrl(getBaseUrl(MediaUrl), text[kth(k)].u)))]

\* C13: with the discontinuity filter on and no segment proxy the rewritten
\* text is the playlist without its blank lines and without its bare
\* discontinuity tags, every segment URI made absolute and every other line
\* but those with a key as it was.
C13_OnlyBareDiscontinuityLinesAreDropped ==
  LET text == call.in.text
      kept == {j \in 1..Len(text) : text[j].t \notin {"BLANK", "DISC"}}
      kth(k) == CHOOSE j \in kept : Cardinality({i \in kept : i <= j}) = k
      isSegment(j) == /\ text[j].t = "URI"
                      /\ \E i \in 1..(j - 1) :
                           /\ text[i].t = "EXTINF"
                           /\ \A k \in (i + 1)..(j - 1) : text[k].t # "URI"
  IN  ( /\ call.fn \in {"deno.processMediaPlaylist", "php.filterDiscontinuity"}
        /\ call.in.passes = 1
        /\ call.in.fd
        /\ ~call.in.ts )
        => /\ Len(call.out) = Cardinality(kept)
           /\ \A k \in 1..Cardinality(kept) :
                IF text[kth(k)].t = "KEY" THEN call.out[k].t = "KEY"
                ELSE IF isSegment(kth(k))
                  THEN call.out[k] =
                         LU("URI", resolveUrl(getBaseUrl(MediaUrl), text[kth(k)].u))
                ELSE call.out[k] = text[kth(k)]

(* ---------------------- the ad filter on its own ---------------------- *)

\* the most segments of a playlist the filter is applied to
MaxSegments == 11

\* hl header lines, then n segments of 2 seconds but segment k (none when
\* k is 0), which has duration d (in tenths of a second), a map and a
\* discontinuity tag before it when map and disc say so and the line of
\* kind next after its #EXTINF line: the URI, a line of blanks, an empty
\* line, or a tag before the URI; last: the text ends with an #EXTINF line
\* without a URI
FilterText(hl, n, k, d, map, disc, next, last) ==
  LET header == [i \in 1..hl |->
                   IF i = 1 THEN L("EXTM3U")
                   ELSE IF i = 2 THEN LD("TARGETDURATION", 3)
                   ELSE IF i = 3 THEN LD("MEDIASEQ", 0)
                   ELSE L("DATERANGE")]
      uri(j) == LU("URI", Rel("seg", j))
      block(j) ==
        IF j # k THEN <<LD("EXTINF", 20), uri(j)>>
        ELSE (IF map THEN <<LU("MAP", Rel("init", 1))>> ELSE <<>>)
             \o (IF disc THEN <<L("DISC")>> ELSE <<>>)
             \o <<LD("EXTINF", d)>>
             \o (CASE next = "uri" -> <<uri(j)>>
                   [] next = "blanks" -> <<LD("BLANK", 1)>>
                   [] next = "empty" -> <<L("BLANK")>>
                   [] OTHER -> <<L("BYTERANGE"), uri(j)>>)
  IN  header \o Flatten([j \in 1..n |-> block(j)])
             \o (IF last THEN <<LD("EXTINF", 20)>> ELSE <<>>)

\* the special segment lasts 0.5, 1.2 or 2 seconds; in further texts it
\* lasts 0.5 seconds and the other ones 1.5 seconds, and in the last texts
\* every segment has '#EXTINF:0'
FilterTexts ==
  {FilterText(hl, n, 0, 20, FALSE, FALSE, "uri", last) :
     hl \in {4, HeaderWindow}, n \in 1..MaxSegments, last \in BOOLEAN}
  \cup
  UNION {{FilterText(hl, n, k, d, map, disc, next, FALSE) :
            hl \in {4, HeaderWindow}, k \in 1..n, d \in {5, 12, 20},
            map \in BOOLEAN, disc \in BOOLEAN} :
         n \in 1..MaxSegments, next \in {"uri", "blanks", "empty", "tag"}}
  \cup
  {[i \in DOMAIN FilterText(HeaderWindow, n, k, 5, FALSE, disc, "uri", FALSE) |->
      LET l == FilterText(HeaderWindow, n, k, 5, FALSE, disc, "uri", FALSE)[i]
      IN  IF l.t = "EXTINF" /\ l.d = 20 THEN LD("EXTINF", 15) ELSE l] :
     n \in 1..MaxSegments, k \in 1..MaxSegments, disc \in BOOLEAN}
  \cup
  {[i \in DOMAIN FilterText(HeaderWindow, n, 0, 20, FALSE, FALSE, "uri", FALSE) |->
      LET l == FilterText(HeaderWindow, n, 0, 20, FALSE, FALSE, "uri", FALSE)[i]
      IN  IF l.t = "EXTINF" THEN LD("EXTINF", 0) ELSE l] :
     n \in 1..MaxSegments}

FilterInit ==
  /\ NoRequests
  /\ \E text \in FilterTexts :
       call = [fn |-> "none", in |-> text,
               out |-> [parsed |-> NoParse,
                        stats |-> [n |-> 0, sum |-> 0, var |-> 0, p10 |-> 0],
                        analyzed |-> <<>>, kept |-> <<>>, text |-> <<>>]]

Stage(from, to, out) ==
  /\ call.fn \in from
  /\ call' = [call EXCEPT !.fn = to, !.out = out]
  /\ UNCHANGED <<impl, env, cache, run, served>>

\* const { segments, headers } = parseM3U8Structure(processedContent)
ParseStructure ==
  Stage({"none"}, "parseM3U8Structure",
        [call.out EXCEPT !.parsed = parseM3U8Structure(call.in)])

\* if (segments.length === 0) return processedContent; then
\* const stats = calculateSegmentStats(segments)
CalculateStats ==
  /\ call.out.parsed.segments # <<>>
  /\ Stage({"parseM3U8Structure"}, "calculateSegmentStats",
           [call.out EXCEPT !.stats = calculateSegmentStats(call.out.parsed.segments)])

\* part_003: const analyzedSegments = analyzeSegments(segments, stats)
AnalyzeSegments ==
  Stage({"calculateSegmentStats"}, "analyzeSegments",
        [call.out EXCEPT !.analyzed =
           analyzeSegments(call.out.parsed.segments, call.out.stats, FALSE)])

\* m3u8filter.php: $analyzedSegments = analyzeSegments($segments, $stats)
AnalyzeSegmentsPhp ==
  Stage({"calculateSegmentStats"}, "analyzeSegments.php",
        [call.out EXCEPT !.analyzed =
           analyzeSegments(call.out.parsed.segments, call.out.stats, TRUE)])

\* const filteredSegments = applyFilterDecision(analyzedSegments, stats)
ApplyFilterDecision ==
  Stage({"analyzeSegments", "analyzeSegments.php"}, "applyFilterDecision",
        [call.out EXCEPT !.kept =
           applyFilterDecision(call.out.parsed.segments, call.out.stats)])

\* part_003: return rebuildM3U8(headers, filteredSegments, processedContent)
RebuildM3U8 ==
  Stage({"applyFilterDecision"}, "rebuildM3U8",
        [call.out EXCEPT !.text = rebuildM3U8(call.out.parsed, call.out.kept, call.in)])

\* m3u8filter.php: return rebuildM3U8($headers, $filteredSegments, $content)
RebuildM3U8Php ==
  Stage({"applyFilterDecision"}, "rebuildM3U8.php",
        [call.out EXCEPT !.text = rebuildM3U8Php(call.out.parsed, call.out.kept, call.in)])

FilterNext ==
  \/ ParseStructure
  \/ CalculateStats
  \/ AnalyzeSegments
  \/ AnalyzeSegmentsPhp
  \/ ApplyFilterDecision
  \/ RebuildM3U8
  \/ RebuildM3U8Php

FilterSpec == FilterInit /\ [][FilterNext]_vars

\* C16: in the decision a segment shorter than a second that comes after the
\* first three is removed whatever its score, but kept when it carries a
\* map; every other segment is removed exactly when it is classified as an
\* ad (its score is then above the dynamic threshold too).
C16_ShortSegmentWithMapIsKept ==
  LET segs == call.out.parsed.segments
      removed(j) == \A i \in 1..Len(call.out.kept) : call.out.kept[i].index # segs[j].index
  IN  call.fn = "applyFilterDecision"
        => \A j \in 1..Len(segs) :
             IF segs[j].duration < 10 /\ segs[j].index >= 3
               THEN removed(j) <=> ~segs[j].hasMap
               ELSE removed(j) <=> call.out.analyzed[j].isAd

\* C17: after classification the score of every segment is a number between
\* 0 and 1, also when all durations are equal and the standard deviation
\* is 0.
C17_ScoreIsANumberInUnitInterval ==
  call.fn \in {"analyzeSegments", "analyzeSegments.php"}
    => \A j \in 1..Len(call.out.analyzed) :
         /\ ~call.out.analyzed[j].scoreIsNaN
         /\ call.out.analyzed[j].adScore \in 0..100

\* C18: the position signal of a segment is 0.8 when it is one of the
\* first three and shorter than the 10th percentile, 0.5 when it is one
\* of the last three (index n-3, n-2 or n-1) and shorter than the 10th
\* percentile, and 0 otherwise.
C18_PositionSignalOfFirstAndLastThree ==
  LET a == call.out.analyzed
      n == Len(a)
  IN  call.fn = "analyzeSegments"
        => \A j \in 1..n :
             a[j].positionFactor =
               (IF a[j].index < 3 /\ a[j].duration < call.out.stats.p10 THEN 8
                ELSE IF a[j].index >= n - 3 /\ a[j].duration < call.out.stats.p10 THEN 5
                ELSE 0)

\* C19: the parser emits one segment for every duration tag whose next line
\* is a URI, wherever it stands in the playlist, and numbers the segments
\* 0, 1, 2, ... in the order of the text.
C19_EveryTaggedUriIsParsedAsSegment ==
  LET text == call.in
      segs == call.out.parsed.segments
      starts == {i \in 1..(Len(text) - 1) :
                   text[i].t = "EXTINF" /\ text[i + 1].t = "URI"}
      kth(k) == CHOOSE i \in starts : Cardinality({j \in starts : j <= i}) = k
  IN  call.fn # "none"
        => /\ Len(segs) = Cardinality(starts)
           /\ \A k \in 1..Len(segs) :
                segs[k].startLine = kth(k) /\ segs[k].index = k - 1

\* C20: a duration tag whose next line is missing, empty, made of blanks or a
\* tag gives no segment, and the parser goes on: the duration tags after the
\* header lines that have their URI on the next line still give theirs.
C20_DurationTagWithoutUriGivesNoSegment ==
  LET text == call.in
      segs == call.out.parsed.segments
  IN  call.fn # "none"
        => /\ \A k \in 1..Len(segs) :
                segs[k].endLine <= Len(text) /\ text[segs[k].endLine].t = "URI"
           /\ \A i \in (HeaderWindow + 1)..(Len(text) - 1) :
                (text[i].t = "EXTINF" /\ text[i + 1].t = "URI")
                  => \E k \in 1..Len(segs) : segs[k].startLine = i

(* ------------- the caches, the rate limit and the redirects ----------- *)

\* CONFIG.CACHE_TTL (deno.ts) and CACHE_TIME (m3u8filter.php), in ticks of
\* the clock
CACHE_TTL == 2

\* CONFIG.REQUEST_LIMIT of part_002
REQUEST_LIMIT == 2

\* the last tick of the clock
MaxTime == 4

\* A cache of deno.ts (SimpleCache) or of m3u8filter.php (the files of
\* CACHE_DIR) with the clock it reads: an item has the content, which is the
\* time it was written at, and a stamp, expires or the file's mtime.  The
\* counters of part_002 with the minute of the clock; a client IP is what
\* parseInt gives for each of its fields between ':' (-1 for NaN):
\* '203.0.113.7', '2001:db8::1' and '2001:0::1'.  fetchWithRedirects on a
\* URL from which hops redirects lead to a URL that answers 200, a redirect
\* without Location, or a redirect to the first URL.
HelperInit ==
  /\ NoRequests
  /\ \/ \E kind \in {"SimpleCache", "CACHE_DIR"} :
          call = [fn |-> "none",
                  in |-> [kind |-> kind, now |-> 0,
                          items |-> [k \in {"a", "b"} |-> <<>>]],
                  out |-> [key |-> "a", value |-> <<>>, expired |-> FALSE]]
     \/ call = [fn |-> "none",
                in |-> [kind |-> "REQUEST_COUNTERS", now |-> 1, counters |-> <<>>],
                out |-> [ip |-> <<>>, admitted |-> FALSE, count |-> <<>>]]
     \/ \E hops \in 0..(MAX_REDIRECTS + 2), end \in {"ok", "no location", "cycle"} :
          call = [fn |-> "none",
                  in |-> [kind |-> "redirects", hops |-> hops, end |-> end],
                  out |-> [depth |-> 0, url |-> 0, fetches |-> 0, last |-> 0,
                           done |-> "", finalUrl |-> 0]]

\* Date.now() and time(): the clock goes on; out.count of the counters is
\* the number of requests of each client admitted in the minute
Tick ==
  /\ call.in.kind \in {"SimpleCache", "CACHE_DIR", "REQUEST_COUNTERS"}
  /\ call.in.now < MaxTime
  /\ call' = [call EXCEPT !.fn = "tick", !.in.now = @ + 1,
                          !.out = IF call.in.kind = "REQUEST_COUNTERS"
                                    THEN [@ EXCEPT !.count = <<>>] ELSE @]
  /\ UNCHANGED <<impl, env, cache, run, served>>

\* SimpleCache.set and writeToCache
CacheSet(key) ==
  /\ call.in.kind \in {"SimpleCache", "CACHE_DIR"}
  /\ call' = [call EXCEPT
       !.fn = "set",
       !.in.items[key] =
          <<[value |-> call.in.now,
             stamp |-> IF call.in.kind = "SimpleCache" THEN call.in.now + CACHE_TTL
                       ELSE call.in.now]>>,
       !.out = [key |-> key, value |-> <<>>, expired |-> FALSE]]
  /\ UNCHANGED <<impl, env, cache, run, served>>

\* SimpleCache.get without the test of expires
CacheGetAny(key) ==
  /\ call.in.kind \in {"SimpleCache", "CACHE_DIR"}
  /\ call' = [call EXCEPT
       !.fn = "get",
       !.out = [key |-> key, expired |-> FALSE,
                value |-> IF call.in.items[key] = <<>> THEN <<>>
                          ELSE <<call.in.items[key][1].value>>]]
  /\ UNCHANGED <<impl, env, cache, run, served>>

\* SimpleCache.get, and getFromCache with its cleanExpiredCache
CacheGet(key) ==
  LET now == call.in.now
      items == call.in.items
      expired(k) ==
        /\ items[k] # <<>>
        /\ IF call.in.kind = "SimpleCache" THEN now > items[k][1].stamp
           ELSE now - items[k][1].stamp > CACHE_TTL
  IN
  /\ call.in.kind \in {"SimpleCache", "CACHE_DIR"}
  /\ call' = [call EXCEPT
       !.fn = "get",
       !.in.items =
          IF ~expired(key) THEN items
          ELSE IF call.in.kind = "SimpleCache" THEN [items EXCEPT ![key] = <<>>]
          ELSE [k \in DOMAIN items |-> IF expired(k) THEN <<>> ELSE items[k]],
       !.out = [key |-> key, expired |-> expired(key),
                value |-> IF items[key] = <<>> \/ expired(key) THEN <<>>
                          ELSE <<items[key][1].value>>]]
  /\ UNCHANGED <<impl, env, cache, run, served>>

\* SimpleCache.cleanUp, called every minute
CleanUp ==
  /\ call.in.kind = "SimpleCache"
  /\ call' = [call EXCEPT
       !.fn = "cleanUp",
       !.in.items = [k \in DOMAIN call.in.items |->
                       IF call.in.items[k] # <<>> /\ call.in.now > call.in.items[k][1].stamp
                         THEN <<>> ELSE call.in.items[k]]]
  /\ UNCHANGED <<impl, env, cache, run, served>>

\* checkRateLimit(clientIP) of part_002; a key is the fields of the client
\* IP and the minute, and k.split(':')[1] is its second field
checkRateLimit(clientIP) ==
  LET minute == call.in.now
      counters == call.in.counters
      key == Append(clientIP, minute)
      count == IF key \in DOMAIN counters THEN counters[key] ELSE 0
      set == [k \in DOMAIN counters \cup {key} |->
                IF k = key THEN count + 1 ELSE counters[k]]
      stays(k) == ~(k[2] # -1 /\ k[2] < minute)
      admitted == IF clientIP \in DOMAIN call.out.count THEN call.out.count[clientIP]
                  ELSE 0
  IN
  /\ call.in.kind = "REQUEST_COUNTERS"
  /\ admitted <= REQUEST_LIMIT
  /\ call' =
       IF count >= REQUEST_LIMIT
         THEN [call EXCEPT !.fn = "checkRateLimit", !.out.ip = clientIP,
                           !.out.admitted = FALSE]
         ELSE [call EXCEPT
                 !.fn = "checkRateLimit",
                 !.in.counters = [k \in {k \in DOMAIN set : stays(k)} |-> set[k]],
                 !.out = [ip |-> clientIP, admitted |-> TRUE,
                          count |-> [c \in DOMAIN call.out.count \cup {clientIP} |->
                                       IF c = clientIP THEN admitted + 1
                                       ELSE call.out.count[c]]]]
  /\ UNCHANGED <<impl, env, cache, run, served>>

\* fetchWithRedirects with depth >= CONFIG.MAX_REDIRECTS
fetchWithRedirectsEarly ==
  LET o == call.out
      redirect == o.url < call.in.hops \/ call.in.end # "ok"
      location == IF o.url < call.in.hops THEN <<o.url + 1>>
                  ELSE IF call.in.end = "cycle" THEN <<0>> ELSE <<>>
  IN
  /\ call.in.kind = "redirects"
  /\ o.done = ""
  /\ call' =
       IF o.depth >= MAX_REDIRECTS
         THEN [call EXCEPT !.fn = "fetchWithRedirects", !.out.done = "thrown"]
       ELSE IF redirect /\ location # <<>>
         THEN [call EXCEPT !.fn = "fetchWithRedirects",
                           !.out = [o EXCEPT !.fetches = @ + 1, !.last = o.url,
                                             !.url = location[1], !.depth = @ + 1]]
       ELSE [call EXCEPT !.fn = "fetchWithRedirects",
                         !.out = [o EXCEPT !.fetches = @ + 1, !.last = o.url,
                                           !.done = "returned", !.finalUrl = o.url]]
  /\ UNCHANGED <<impl, env, cache, run, served>>

\* one call of fetchWithRedirects(url, options, depth) of part_002 up to
\* its return or its recursive call; URL n redirects to URL n + 1 as long
\* as n < hops
fetchWithRedirects ==
  LET o == call.out
      redirect == o.url < call.in.hops \/ call.in.end # "ok"
      location == IF o.url < call.in.hops THEN <<o.url + 1>>
                  ELSE IF call.in.end = "cycle" THEN <<0>> ELSE <<>>
  IN
  /\ call.in.kind = "redirects"
  /\ o.done = ""
  /\ call' =
       IF o.depth > MAX_REDIRECTS
         THEN [call EXCEPT !.fn = "fetchWithRedirects", !.out.done = "thrown"]
       ELSE IF redirect /\ location # <<>>
         THEN [call EXCEPT !.fn = "fetchWithRedirects",
                           !.out = [o EXCEPT !.fetches = @ + 1, !.last = o.url,
                                             !.url = location[1], !.depth = @ + 1]]
       ELSE [call EXCEPT !.fn = "fetchWithRedirects",
                         !.out = [o EXCEPT !.fetches = @ + 1, !.last = o.url,
                                           !.done = "returned", !.finalUrl = o.url]]
  /\ UNCHANGED <<impl, env, cache, run, served>>

HelperNext ==
  \/ Tick
  \/ \E key \in {"a", "b"} : CacheSet(key)
  \/ \E key \in {"a", "b"} : CacheGet(key)
  \/ CleanUp
  \/ \E clientIP \in {<<203>>, <<2001, -1, -1, 1>>, <<2001, 0, -1, 1>>} :
       checkRateLimit(clientIP)
  \/ fetchWithRedirects

\* every fetch of fetchWithRedirects returns or times out
HelperSpec == HelperInit /\ [][HelperNext]_vars /\ WF_vars(fetchWithRedirects)

\* C23: a get of the cache never returns a value written more than the TTL
\* before; a get that finds an expired item answers a miss and the item is
\* gone; a set after it puts the new value in its place.
C23_CacheGetReturnsNoExpiredValue ==
  call.in.kind \in {"SimpleCache", "CACHE_DIR"}
    => /\ (call.fn = "get" /\ call.out.value # <<>>)
            => call.in.now - call.out.value[1] <= CACHE_TTL
       /\ \A k \in DOMAIN call.in.items :
            (call.fn = "get" /\ call.out.key = k /\ call.in.items[k] # <<>>)
              => /\ call.out.value = <<call.in.items[k][1].value>>
                 /\ call.in.now - call.in.items[k][1].value <= CACHE_TTL
       /\ (call.fn = "get" /\ call.out.expired)
            => call.out.value = <<>> /\ call.in.items[call.out.key] = <<>>
       /\ (call.fn = "set")
            => call.in.items[call.out.key] # <<>>
               /\ call.in.items[call.out.key][1].value = call.in.now

\* an item written at time 0 was found expired by a get and is gone, while
\* the other item, written later, stays
C23_Witness ==
  /\ call.in.kind \in {"SimpleCache", "CACHE_DIR"}
  /\ call.fn = "get"
  /\ call.out = [key |-> "a", value |-> <<>>, expired |-> TRUE]
  /\ call.in.now > CACHE_TTL
  /\ call.in.items["a"] = <<>>
  /\ call.in.items["b"] # <<>>

\* C29: in no minute checkRateLimit admits more than REQUEST_LIMIT requests
\* of one client IP, whatever the IP (one with ':' in it too); its cleanup
\* leaves the counter of the current minute and deletes the counters of
\* earlier minutes.
C29_RateLimitHoldsForEveryClient ==
  call.in.kind = "REQUEST_COUNTERS"
    => /\ \A c \in DOMAIN call.out.count : call.out.count[c] <= REQUEST_LIMIT
       /\ (call.fn = "checkRateLimit" /\ call.out.admitted)
            => /\ Append(call.out.ip, call.in.now) \in DOMAIN call.in.counters
               /\ \A k \in DOMAIN call.in.counters : k[Len(k)] >= call.in.now

\* C30: fetchWithRedirects fetches at most MAX_REDIRECTS + 1 times; it
\* throws the maximum-redirect error only after that many fetches, on a
\* chain of more than MAX_REDIRECTS redirects or a cycle; the finalUrl it
\* returns is the URL of its last fetch, whose response was no redirect or
\* had no Location; and it ends.
C30_RedirectsAreFollowedUpToTheBound ==
  /\ [](call.in.kind = "redirects"
         => /\ call.out.fetches <= MAX_REDIRECTS + 1
            /\ call.out.done = "thrown"
                 => /\ call.out.fetches = MAX_REDIRECTS + 1
                    /\ call.in.hops > MAX_REDIRECTS \/ call.in.end = "cycle"
            /\ call.out.done = "returned"
                 => /\ call.out.finalUrl = call.out.last
                    /\ call.out.last = call.in.hops
                    /\ call.in.end # "cycle"
                    /\ call.out.fetches = call.in.hops + 1)
  /\ (call.in.kind = "redirects")
       ~> (call.in.kind = "redirects" /\ call.out.done # "")

\* on a cycle of redirects the error was thrown after MAX_REDIRECTS + 1
\* fetches
C30_Witness ==
  /\ call.in.kind = "redirects"
  /\ call.in.end = "cycle"
  /\ call.in.hops = 1
  /\ call.out.done = "thrown"
  /\ call.out.fetches = MAX_REDIRECTS + 1

\* C21: every tag line of the input that is not a duration, map or
\* discontinuity tag (a key or byte-range tag after the header lines, say)
\* is in the output of the filter, with as many retained segments before
\* it as in the input.
C21_OtherTagLinesArePreserved ==
  LET text == call.in
      out == call.out.text
      kept == call.out.kept
      before(i) == Cardinality({k \in 1..Len(kept) : kept[k].endLine < i})
      urisBefore(j) == Cardinality({m \in 1..(j - 1) : out[m].t = "URI"})
  IN  call.fn \in {"rebuildM3U8", "rebuildM3U8.php"}
        => \A i \in 1..Len(text) :
             (IsComment(text[i]) /\ text[i].t \notin {"EXTINF", "MAP", "DISC", "DISCSEQ"})
               => \E j \in 1..Len(out) :
                    out[j].t = text[i].t /\ urisBefore(j) = before(i)

\* C22: when the filter has removed a segment, the target-duration line of
\* its output carries the ceiling of the longest remaining duration; its
\* media-sequence line carries the index the first remaining segment had in
\* the input when that is not 0, and what it carried before when it is 0.
C22_HeadersFollowTheRemainingSegments ==
  LET text == call.in
      out == call.out.text
      kept == call.out.kept
      longest == CHOOSE d \in {kept[k].duration : k \in 1..Len(kept)} :
                   \A k \in 1..Len(kept) : kept[k].duration <= d
      ceiling == CHOOSE c \in 0..longest : 10 * c >= longest /\ 10 * (c - 1) < longest
  IN  ( /\ call.fn = "rebuildM3U8"
        /\ kept # <<>>
        /\ Len(kept) < Len(call.out.parsed.segments) )
        => /\ \E j \in 1..Len(out) : out[j].t = "TARGETDURATION"
           /\ \E j \in 1..Len(out) : out[j].t = "MEDIASEQ"
           /\ \A j \in 1..Len(out) :
                /\ out[j].t = "TARGETDURATION" => out[j].d = ceiling
                /\ out[j].t = "MEDIASEQ" =>
                     out[j].d = (IF kept[1].index > 0 THEN kept[1].index
                                 ELSE text[FirstTag(text, "MEDIASEQ")].d)

\* the first segment was removed from a playlist of segments of 1.5
\* seconds, and both header lines were rewritten
C22_Witness ==
  /\ call.fn = "rebuildM3U8"
  /\ Len(call.out.kept) < Len(call.out.parsed.segments)
  /\ call.out.kept # <<>>
  /\ call.out.kept[1].index = 1
  /\ call.out.kept[1].duration = 15
  /\ call.in[2] = LD("TARGETDURATION", 3)
  /\ call.out.text[2] = LD("TARGETDURATION", 2)
  /\ call.in[3] = LD("MEDIASEQ", 0)
  /\ call.out.text[3] = LD("MEDIASEQ", 1)

\* C24: when the decision removes no segment, the output of the filter has
\* the duration and URI line pairs of the input: as many, in the same
\* order, each duration line right before its own URI line.
C24_UnfilteredPlaylistKeepsEverySegment ==
  LET text == call.in
      out == call.out.text
      pairs(t) == {i \in 1..(Len(t) - 1) : t[i].t = "EXTINF" /\ t[i + 1].t = "URI"}
      kth(t, k) == CHOOSE i \in pairs(t) : Cardinality({j \in pairs(t) : j <= i}) = k
  IN  ( /\ call.fn \in {"rebuildM3U8", "rebuildM3U8.php"}
        /\ Len(call.out.kept) = Len(call.out.parsed.segments) )
        => /\ Cardinality(pairs(out)) = Cardinality(pairs(text))
           /\ \A k \in 1..Cardinality(pairs(text)) :
                /\ out[kth(out, k)] = text[kth(text, k)]
                /\ out[kth(out, k) + 1] = text[kth(text, k) + 1]
           /\ \A j \in 1..Len(out) :
                out[j].t = "URI" => j > 1 /\ out[j - 1].t = "EXTINF"

\* C27, without the case of a mean duration of 0: the dynamic threshold of
\* the decision is never above the fixed threshold 0.65 of the
\* classification, and every segment classified as an ad is removed by the
\* decision; where the mean duration is positive the dynamic threshold lies
\* between 0.5 and 0.65.
C27_DynamicThresholdIsAtMostFixed ==
  LET stats == call.out.stats
      kept == call.out.kept
  IN  call.fn = "applyFilterDecision"
        => /\ ~dynamicThresholdAbove(stats, 650)
           /\ stats.sum > 0 => dynamicThresholdAbove(stats, 490)
           /\ \A j \in 1..Len(call.out.analyzed) :
                call.out.analyzed[j].isAd
                  => \A k \in 1..Len(kept) : kept[k].index # call.out.analyzed[j].index

\* a segment classified as an ad was removed under a dynamic threshold
\* strictly between 0.5 and 0.65
C27_Witness ==
  /\ call.fn = "applyFilterDecision"
  /\ dynamicThresholdAbove(call.out.stats, 500)
  /\ ~dynamicThresholdAbove(call.out.stats, 640)
  /\ \E j \in 1..Len(call.out.analyzed) :
       /\ call.out.analyzed[j].isAd
       /\ call.out.analyzed[j].index <= 3
       /\ \A k \in 1..Len(call.out.kept) :
            call.out.kept[k].index # call.out.analyzed[j].index

\* C27 as stated: the dynamic threshold lies between 0.5 and 0.65 for every
\* playlist, and every segment classified as an ad is removed.
C27_DynamicThresholdInRange ==
  call.fn = "applyFilterDecision"
    => /\ dynamicThresholdAbove(call.out.stats, 490)
       /\ ~dynamicThresholdAbove(call.out.stats, 650)
       /\ \A j \in 1..Len(call.out.analyzed) :
            call.out.analyzed[j].isAd
              => \A k \in 1..Len(call.out.kept) :
                   call.out.kept[k].index # call.out.analyzed[j].index

\* C28: in a playlist of fewer than 10 parsed segments the 10th percentile
\* is the shortest duration, the position signal of every segment is 0,
\* every score is a number of at most 0.63, and no segment is classified as
\* an ad or removed for its score; in any playlist only one of the first
\* three or of the last two segments is classified as an ad.
C28_FewSegmentsGiveNoAd ==
  LET a == call.out.analyzed
      n == Len(a)
      kept == call.out.kept
      removed(j) == \A k \in 1..Len(kept) : kept[k].index # a[j].index
  IN  /\ call.fn \in {"analyzeSegments", "analyzeSegments.php"}
           => /\ \A j \in 1..n : a[j].isAd => (a[j].index < 3 \/ a[j].index >= n - 2)
              /\ n < 10
                   => /\ \A j \in 1..n : call.out.stats.p10 <= a[j].duration
                      /\ \A j \in 1..n :
                           /\ a[j].positionFactor = 0
                           /\ ~a[j].scoreIsNaN
                           /\ a[j].adScore <= 63
                           /\ ~a[j].isAd
      /\ (call.fn = "applyFilterDecision" /\ n < 10)
           => \A j \in 1..n : removed(j) => (a[j].duration < 10 /\ a[j].index > 3)

\* C28, the scores that are no numbers left aside: what the claim says of
\* the scores holds of all that are numbers, and the rest of it holds.
C28_FewSegmentsGiveNoAdButNaN ==
  LET a == call.out.analyzed
      n == Len(a)
      kept == call.out.kept
      removed(j) == \A k \in 1..Len(kept) : kept[k].index # a[j].index
  IN  /\ call.fn \in {"analyzeSegments", "analyzeSegments.php"}
           => /\ \A j \in 1..n : a[j].isAd => (a[j].index < 3 \/ a[j].index >= n - 2)
              /\ n < 10
                   => /\ \A j \in 1..n : call.out.stats.p10 <= a[j].duration
                      /\ \A j \in 1..n :
                           /\ a[j].positionFactor = 0
                           /\ ~a[j].scoreIsNaN => a[j].adScore <= 63
                           /\ ~a[j].isAd
      /\ (call.fn = "applyFilterDecision" /\ n < 10)
           => \A j \in 1..n : removed(j) => (a[j].duration < 10 /\ a[j].index > 3)

\* nine segments, one of them short, first and after a discontinuity tag:
\* its score is a number above 0.5 and it is not classified as an ad
C28_Witness ==
  /\ call.fn \in {"analyzeSegments", "analyzeSegments.php"}
  /\ Len(call.out.analyzed) = 9
  /\ call.out.analyzed[1].duration = 5
  /\ call.out.analyzed[1].hasDiscontinuity
  /\ call.out.analyzed[1].adScore > 50
  /\ ~call.out.analyzed[1].isAd
  /\ ~call.out.analyzed[1].scoreIsNaN
  /\ call.out.stats.p10 = 5
====
